---- MODULE Spec2Model ----
\* Mesh consolidation (openCascadeHelper, visualize, tessellateShape*) and the
\* joist variant library (initializeJoistLibrary / instantiateJoistFromLibrary)
\* of the 3DJoists demos, as state machines.
EXTENDS Integers, Sequences, FiniteSets, TLC

VARIABLES
    shape,          \* the B-rep shape handed to the consolidation routines (a list of faces)
    facelist,       \* return value of openCascadeHelper.tessellate(shape)
    joined,         \* return value of openCascadeHelper.joinPrimitives(facelist)
    visGeoms,       \* return value of visualize(oc, shape)
    optGeometry,    \* return value of tessellateShapeOptimized(oc, shape)
    shapeMesh,      \* return value of tessellateShape(oc, shape)
    scene,          \* the object named "shape" that addShapeToScene left in the scene
    variant,        \* which library module is loaded (named by its variant count N)
    JOIST_LIBRARY,  \* the module-level Map, held as the build runs that have written it
    pending,        \* initializeJoistLibrary calls suspended at await CreateJoist(oc)
    initCalls,      \* number of initializeJoistLibrary calls started
    tessRuns,       \* number of tessellateShapeOptimized runs made by the library
    lastCall,       \* outcome of the latest instantiateJoistFromLibrary call
    prevCall,       \* outcome of the instantiateJoistFromLibrary call before it
    lastStats,      \* outcome of the latest getLibraryStats call
    lastInit,       \* how the latest settled initializeJoistLibrary promise settled
    visIndices,     \* the indices array visualize filled for the shape's face
    kernelRun,      \* the latest face loop run against a kernel that may raise an error
    creation,       \* the locals and position of the demo's joist-creation function
    joistsByFloor,  \* the module-level array of arrays of meshes, one array per floor
    designRunBtn,   \* the "design-run-btn" element
    meshMaterial,   \* mesh.material of every joist mesh
    originalMaterials, \* the module-level Map from mesh to its stored material
    designRuns,     \* the simulateDesignRun invocations, with their locals and timers
    children,       \* scene.children, each object by its name and its identity
    sceneCalls      \* the addShapeToScene calls, with their locals and positions

vars == <<shape, facelist, joined, visGeoms, optGeometry, shapeMesh, scene,
          variant, JOIST_LIBRARY, pending, initCalls, tessRuns, lastCall, prevCall,
          lastStats, lastInit, visIndices, kernelRun, creation, joistsByFloor,
          designRunBtn, meshMaterial, originalMaterials, designRuns, children,
          sceneCalls>>

meshVars == <<shape, facelist, joined, visGeoms, optGeometry, shapeMesh, scene>>
createVars == <<creation, joistsByFloor>>
designVars == <<designRunBtn, meshMaterial, originalMaterials, designRuns>>
sceneVars == <<children, sceneCalls>>
faceVars == <<visIndices, kernelRun, createVars, designVars, sceneVars>>
libVars == <<variant, JOIST_LIBRARY, pending, initCalls, tessRuns, lastCall, prevCall, lastStats,
            lastInit>>

\* ---------------------------------------------------------------- bounds
MaxFaces == 2
MaxNodes == 3

\* ---------------------------------------------------------------- values
\* the design-run button of a loaded page, with the label the reset gives it
ButtonAtLoad == [disabled |-> FALSE, textContent |-> "Simulate Joist Design Run"]

\* the scene setupThreeJSViewport returns: three lights, none of them named
SceneAtLoad ==
    <<[name |-> "", object |-> "AmbientLight"],
      [name |-> "", object |-> "DirectionalLight"],
      [name |-> "", object |-> "DirectionalLight2"]>>

\* no addShapeToScene call has started; finished lists the calls in the order
\* in which they returned
NoCalls == [calls |-> <<>>, finished |-> <<>>]

\* scene.getObjectByName(name): the position of the first child of that name,
\* <<>> when there is none
getObjectByName(ch, name) ==
    IF \E k \in DOMAIN ch : ch[k].name = name
    THEN <<CHOOSE k \in DOMAIN ch :
              ch[k].name = name /\ \A j \in 1..(k - 1) : ch[j].name # name>>
    ELSE <<>>

\* scene.remove(child) of the child at position k
Remove(ch, k) == SubSeq(ch, 1, k - 1) \o SubSeq(ch, k + 1, Len(ch))

\* an insertion that leaves the existing shape in the scene
ReplaceShape_NoRemoval(ch, object) == Append(ch, object)

\* const existingShape = scene.getObjectByName("shape");
\* if (existingShape) scene.remove(existingShape); scene.add(object)
ReplaceShape(ch, object) ==
    LET existingShape == getObjectByName(ch, "shape")
    IN Append(IF existingShape # <<>> THEN Remove(ch, existingShape[1]) ELSE ch, object)

\* a variable that holds a call's return value: nothing yet, or the value returned
NotCalled == [called |-> FALSE]
Returned(v) == [called |-> TRUE, value |-> v]
Undefined == "undefined"
FORWARD == "TopAbs_FORWARD"
REVERSED == "TopAbs_REVERSED"
Orientations == {FORWARD, REVERSED}

\* 0-based read of a JS array held as a sequence
At(arr, i) == IF i >= 0 /\ i < Len(arr) THEN arr[i + 1] ELSE Undefined

\* JS arr[i] = v on a dense array: replace, append, or leave holes before i
RECURSIVE ArraySet(_, _, _)
ArraySet(arr, i, v) ==
    IF i < Len(arr) THEN [arr EXCEPT ![i + 1] = v]
    ELSE IF i = Len(arr) THEN Append(arr, v)
    ELSE ArraySet(Append(arr, Undefined), i, v)

\* ---------------------------------------------------------------- the kernel's faces
\* A face as BRep_Tool.Triangulation and Orientation_1 expose it.
NullFace == [isNull |-> TRUE, nodes |-> 0, tris |-> <<>>, orient |-> FORWARD]

\* triangle lists over n nodes: none, one triangle, two triangles; the triples
\* touch node 1 and node n, the ends of the legal range [1, n]
TriLists(n) ==
    IF n < 3 THEN {<<>>}
    ELSE {<<>>, << <<1, 2, n>> >>, << <<n, 2, 1>>, <<2, n, 1>> >>}

Faces ==
    {NullFace} \cup
    UNION {{[isNull |-> FALSE, nodes |-> n, tris |-> t, orient |-> o] :
                t \in TriLists(n), o \in Orientations} : n \in 0..MaxNodes}

Shapes == UNION {[1..k -> Faces] : k \in 0..MaxFaces}

\* the transformed point / normal of node i of the k-th face, one coordinate c
Point(k, i, c) == <<"p", k, i, c>>
Normal(k, i, c) == <<"n", k, i, c>>
Coord == <<"X", "Y", "Z">>

\* ---------------------------------------------------------------- openCascadeHelper.tessellate
\* WindTriple swapping the last two indices instead of the first two
WindTriple_SwapLastTwo(t, orient) ==
    IF orient # FORWARD THEN <<t[1], t[3], t[2]>> ELSE t

\* winding correction of one triangle (n1, n2, n3)
WindTriple(t, orient) ==
    IF orient # FORWARD THEN <<t[2], t[1], t[3]>> ELSE t

\* this_face.vertex_coord: slot (i-1)*3+c holds coordinate c of node i
VertexCoord(k, n) ==
    [j \in 1..(n * 3) |-> Point(k, ((j - 1) \div 3) + 1, Coord[((j - 1) % 3) + 1])]

\* normals stored from the last node to the first
NormalCoord_LastFirst(k, n) ==
    [j \in 1..(n * 3) |-> Normal(k, n - ((j - 1) \div 3), Coord[((j - 1) % 3) + 1])]

\* this_face.normal_coord: myNormal has bounds 1..NbNodes, slot (i-1)*3+c
NormalCoord(k, n) ==
    [j \in 1..(n * 3) |-> Normal(k, ((j - 1) \div 3) + 1, Coord[((j - 1) % 3) + 1])]

\* this_face.tri_indexes: slot validFaceTriCount*3+c, 1-based node numbers kept
TriIndexes(tris, orient) ==
    [j \in 1..(Len(tris) * 3) |->
        WindTriple(tris[((j - 1) \div 3) + 1], orient)[((j - 1) % 3) + 1]]

\* the this_face object pushed for the k-th face of the shape
ThisFace(k, f) ==
    [vertex_coord |-> VertexCoord(k, f.nodes),
     normal_coord |-> NormalCoord(k, f.nodes),
     tri_indexes |-> TriIndexes(f.tris, f.orient),
     number_of_triangles |-> Len(f.tris)]

\* the face loop: a null triangulation is skipped, every other face is pushed
RECURSIVE TessellateFrom(_, _)
TessellateFrom(s, k) ==
    IF k > Len(s) THEN <<>>
    ELSE IF s[k].isNull THEN TessellateFrom(s, k + 1)
    ELSE <<ThisFace(k, s[k])>> \o TessellateFrom(s, k + 1)

tessellate(s) == TessellateFrom(s, 1)

\* ---------------------------------------------------------------- openCascadeHelper.joinPrimitives
\* number of passes of "for (x = 0; x < arr.length / 3; x++)"
Groups(arr) == (Len(arr) + 2) \div 3

\* one of the two copy loops (vertices, normals): returns <<array, counter>>
RECURSIVE CopyCoords(_, _, _, _)
CopyCoords(dst, ob, src, x) ==
    IF x >= Groups(src) THEN <<dst, ob>>
    ELSE LET d0 == ArraySet(dst, (ob * 3) + 0, At(src, (x * 3) + 0))
             d1 == ArraySet(d0, (ob * 3) + 1, At(src, (x * 3) + 1))
             d2 == ArraySet(d1, (ob * 3) + 2, At(src, (x * 3) + 2))
         IN CopyCoords(d2, ob + 1, src, x + 1)

\* myface.tri_indexes[...] + advance - 1
Rebase(v, advance) == IF v \in Int THEN v + advance - 1 ELSE "NaN"

\* the index copy loop: returns <<array, counter>>
RECURSIVE CopyIndices(_, _, _, _, _)
CopyIndices(dst, ob, src, x, advance) ==
    IF x >= Groups(src) THEN <<dst, ob>>
    ELSE LET d0 == ArraySet(dst, (ob * 3) + 0, Rebase(At(src, (x * 3) + 0), advance))
             d1 == ArraySet(d0, (ob * 3) + 1, Rebase(At(src, (x * 3) + 1), advance))
             d2 == ArraySet(d1, (ob * 3) + 2, Rebase(At(src, (x * 3) + 2), advance))
         IN CopyIndices(d2, ob + 1, src, x + 1, advance)

\* JoinFace with the offset advanced before the indices are copied
JoinFace_AdvanceEarly(acc, myface) ==
    LET v == CopyCoords(acc.locVertexcoord, acc.obP, myface.vertex_coord, 0)
        n == CopyCoords(acc.locNormalcoord, acc.obN, myface.normal_coord, 0)
        t == CopyIndices(acc.locTriIndices, acc.obTR, myface.tri_indexes, 0, v[2])
    IN [obP |-> v[2], obN |-> n[2], obTR |-> t[2], advance |-> v[2],
        locVertexcoord |-> v[1], locNormalcoord |-> n[1], locTriIndices |-> t[1]]

\* the body of facelist.forEach for one face; acc holds the function's locals
JoinFace(acc, myface) ==
    LET v == CopyCoords(acc.locVertexcoord, acc.obP, myface.vertex_coord, 0)
        n == CopyCoords(acc.locNormalcoord, acc.obN, myface.normal_coord, 0)
        t == CopyIndices(acc.locTriIndices, acc.obTR, myface.tri_indexes, 0, acc.advance)
    IN [obP |-> v[2], obN |-> n[2], obTR |-> t[2], advance |-> v[2],
        locVertexcoord |-> v[1], locNormalcoord |-> n[1], locTriIndices |-> t[1]]

RECURSIVE JoinFrom(_, _, _)
JoinFrom(acc, fl, k) ==
    IF k > Len(fl) THEN acc ELSE JoinFrom(JoinFace(acc, fl[k]), fl, k + 1)

JoinLocals(fl) ==
    JoinFrom([obP |-> 0, obN |-> 0, obTR |-> 0, advance |-> 0,
              locVertexcoord |-> <<>>, locNormalcoord |-> <<>>, locTriIndices |-> <<>>],
             fl, 1)

\* return [locVertexcoord, locNormalcoord, locTriIndices]
joinPrimitives(fl) ==
    LET r == JoinLocals(fl)
    IN <<r.locVertexcoord, r.locNormalcoord, r.locTriIndices>>


\* ---------------------------------------------------------------- visualize
Uint16Limit == 65535

\* a typed-array store: Uint32Array when triLength > 65535, else Uint16Array.
\* A Uint32Array keeps every value below 2^32, which covers every node number here;
\* a Uint16Array keeps the value modulo 2^16.
IndexStore(triLength, v) ==
    IF triLength > Uint16Limit THEN v ELSE v % 65536

IndexType(triLength) ==
    IF triLength > Uint16Limit THEN "Uint32Array" ELSE "Uint16Array"

\* winding correction of one triangle in visualize
VisWindTriple(t, orient) ==
    IF orient # FORWARD THEN <<t[2], t[1], t[3]>> ELSE t

\* the indices typed array filled for one face: n - 1 of every corner, stored
VisIndices(f) ==
    LET triLength == Len(f.tris) * 3
    IN [j \in 1..triLength |->
            IndexStore(triLength,
                VisWindTriple(f.tris[((j - 1) \div 3) + 1], f.orient)
                    [((j - 1) % 3) + 1] - 1)]

\* the BufferGeometry built for the k-th face
VisGeometry(k, f) ==
    LET triLength == Len(f.tris) * 3
    IN [position |-> [j \in 1..(f.nodes * 3) |->
                        Point(k, ((j - 1) \div 3) + 1, Coord[((j - 1) % 3) + 1])],
        normal |-> [j \in 1..(f.nodes * 3) |->
                        Normal(k, ((j - 1) \div 3) + 1, Coord[((j - 1) % 3) + 1])],
        index |-> VisIndices(f),
        indexType |-> IndexType(triLength)]

\* the face loop: null and empty triangulations are skipped
RECURSIVE VisualizeFrom(_, _)
VisualizeFrom(s, k) ==
    IF k > Len(s) THEN <<>>
    ELSE IF s[k].isNull THEN VisualizeFrom(s, k + 1)
    ELSE IF s[k].nodes = 0 \/ Len(s[k].tris) = 0 THEN VisualizeFrom(s, k + 1)
    ELSE <<VisGeometry(k, s[k])>> \o VisualizeFrom(s, k + 1)

visualize(s) == VisualizeFrom(s, 1)

\* ---------------------------------------------------------------- tessellateShapeOptimized / tessellateShape
\* allVertices.push(node.X(), node.Y(), node.Z()) for i = 1..nodeCount
PushVertices(k, nodeCount) ==
    [j \in 1..(nodeCount * 3) |->
        Point(k, ((j - 1) \div 3) + 1, Coord[((j - 1) % 3) + 1])]

\* the triangles of a face pushed last to first
PushTriangles_LastFirst(tris, vertexOffset) ==
    [j \in 1..(Len(tris) * 3) |->
        tris[Len(tris) - ((j - 1) \div 3)][((j - 1) % 3) + 1] - 1 + vertexOffset]

\* allTriangles.push(n1 - 1 + vertexOffset, n2 - 1 + vertexOffset, n3 - 1 + vertexOffset)
PushTriangles(tris, vertexOffset) ==
    [j \in 1..(Len(tris) * 3) |->
        tris[((j - 1) \div 3) + 1][((j - 1) % 3) + 1] - 1 + vertexOffset]

\* one pass of while (explorer.More()); acc holds allVertices, allTriangles, vertexOffset
LoopFace(acc, k, f) ==
    IF ~f.isNull /\ f.nodes > 0 /\ Len(f.tris) > 0
    THEN [allVertices |-> acc.allVertices \o PushVertices(k, f.nodes),
          allTriangles |-> acc.allTriangles \o PushTriangles(f.tris, acc.vertexOffset),
          vertexOffset |-> acc.vertexOffset + f.nodes]
    ELSE acc

RECURSIVE LoopFrom(_, _, _)
LoopFrom(acc, s, k) ==
    IF k > Len(s) THEN acc ELSE LoopFrom(LoopFace(acc, k, s[k]), s, k + 1)

FaceLoop(s) ==
    LoopFrom([allVertices |-> <<>>, allTriangles |-> <<>>, vertexOffset |-> 0], s, 1)

NoIndex == "no-index"

\* new BufferGeometry with "position" set and, when there are triangles, the index
BufferGeometry(allVertices, allTriangles) ==
    [type |-> "BufferGeometry",
     position |-> allVertices,
     index |-> IF Len(allTriangles) > 0 THEN allTriangles ELSE NoIndex]

tessellateShapeOptimized(s) ==
    LET r == FaceLoop(s) IN BufferGeometry(r.allVertices, r.allTriangles)

\* the red unit cube returned when no vertex was extracted
BoxGeometry == [type |-> "BoxGeometry", position |-> <<>>, index |-> NoIndex]

tessellateShape(s) ==
    LET r == FaceLoop(s)
    IN IF Len(r.allVertices) = 0
       THEN [geometry |-> BoxGeometry, color |-> "0xff0000"]
       ELSE [geometry |-> BufferGeometry(r.allVertices, r.allTriangles),
             color |-> "0xcccccc"]

\* ---------------------------------------------------------------- consolidation: the state machine
Init ==
    /\ shape \in Shapes
    /\ facelist = NotCalled
    /\ joined = NotCalled
    /\ visGeoms = NotCalled
    /\ optGeometry = NotCalled
    /\ shapeMesh = NotCalled
    /\ scene = NotCalled
    /\ variant = "none"
    /\ JOIST_LIBRARY = <<>>
    /\ pending = 0
    /\ initCalls = 0
    /\ tessRuns = 0
    /\ lastCall = NotCalled
    /\ prevCall = NotCalled
    /\ lastStats = NotCalled
    /\ lastInit = NotCalled
    /\ visIndices = NotCalled
    /\ kernelRun = NotCalled
    /\ creation = NotCalled
    /\ joistsByFloor = <<>>
    /\ designRunBtn = ButtonAtLoad
    /\ meshMaterial = <<>>
    /\ originalMaterials = <<>>
    /\ designRuns = <<>>
    /\ children = SceneAtLoad
    /\ sceneCalls = NoCalls

Tessellate ==
    /\ facelist' = Returned(tessellate(shape))
    /\ UNCHANGED <<shape, joined, visGeoms, optGeometry, shapeMesh, scene>>
    /\ UNCHANGED <<libVars, faceVars>>

JoinPrimitives ==
    /\ facelist.called
    /\ joined' = Returned(joinPrimitives(facelist.value))
    /\ UNCHANGED <<shape, facelist, visGeoms, optGeometry, shapeMesh, scene>>
    /\ UNCHANGED <<libVars, faceVars>>

Visualize ==
    /\ visGeoms' = Returned(visualize(shape))
    /\ UNCHANGED <<shape, facelist, joined, optGeometry, shapeMesh, scene>>
    /\ UNCHANGED <<libVars, faceVars>>

TessellateShapeOptimized ==
    /\ optGeometry' = Returned(tessellateShapeOptimized(shape))
    /\ UNCHANGED <<shape, facelist, joined, visGeoms, shapeMesh, scene>>
    /\ UNCHANGED <<libVars, faceVars>>

TessellateShape ==
    /\ shapeMesh' = Returned(tessellateShape(shape))
    /\ UNCHANGED <<shape, facelist, joined, visGeoms, optGeometry, scene>>
    /\ UNCHANGED <<libVars, faceVars>>

Next ==
    \/ Tessellate
    \/ JoinPrimitives
    \/ Visualize
    \/ TessellateShapeOptimized
    \/ TessellateShape

Spec == Init /\ [][Next]_vars

\* ---------------------------------------------------------------- generateGeometry / addShapeToScene
\* v * 3 in JS: NaN when v is not a number
Times3(v) == IF v \in Int THEN v * 3 ELSE "NaN"

\* the vertex numbers taken as offsets, without the stride of three
objGetTriangle_NoStride(trianglenum, locTriIndices) ==
    LET pID == At(locTriIndices, (trianglenum * 3) + 0)
        qID == At(locTriIndices, (trianglenum * 3) + 1)
        rID == At(locTriIndices, (trianglenum * 3) + 2)
    IN <<<<pID, qID, rID>>, <<pID, qID, rID>>, <<pID, qID, rID>>>>

\* objGetTriangle: the offsets of the triangle's three vertices in the flat arrays
objGetTriangle(trianglenum, locTriIndices) ==
    LET pID == Times3(At(locTriIndices, (trianglenum * 3) + 0))
        qID == Times3(At(locTriIndices, (trianglenum * 3) + 1))
        rID == Times3(At(locTriIndices, (trianglenum * 3) + 2))
    IN <<<<pID, qID, rID>>, <<pID, qID, rID>>, <<pID, qID, rID>>>>

\* new Vector3(arr[id + 0], arr[id + 1], arr[id + 2])
Vector3(arr, id) ==
    IF id \in Int THEN <<At(arr, id + 0), At(arr, id + 1), At(arr, id + 2)>>
    ELSE <<Undefined, Undefined, Undefined>>

\* the three v(...) calls of pass i of the first loop
TriangleVertices(i, locVertexcoord, locTriIndices) ==
    LET vertices_idx == objGetTriangle(i, locTriIndices)[1]
    IN <<Vector3(locVertexcoord, vertices_idx[1]),
         Vector3(locVertexcoord, vertices_idx[2]),
         Vector3(locVertexcoord, vertices_idx[3])>>

\* the f3(...) call of pass i of the second loop
Face3(i, locNormalcoord, locTriIndices) ==
    LET normals_idx == objGetTriangle(i, locTriIndices)[2]
    IN [a |-> 0 + (i * 3), b |-> 1 + (i * 3), c |-> 2 + (i * 3),
        vertexNormals |-> <<Vector3(locNormalcoord, normals_idx[1]),
                            Vector3(locNormalcoord, normals_idx[2]),
                            Vector3(locNormalcoord, normals_idx[3])>>]

\* return [vertices, faces]
generateGeometry(tot_triangle_count, locVertexcoord, locNormalcoord, locTriIndices) ==
    <<[j \in 1..(tot_triangle_count * 3) |->
          TriangleVertices((j - 1) \div 3, locVertexcoord, locTriIndices)[((j - 1) % 3) + 1]],
      [j \in 1..tot_triangle_count |-> Face3(j - 1, locNormalcoord, locTriIndices)]>>

\* facelist.reduce((a, b) => a + b.number_of_triangles, 0)
RECURSIVE TotTriangleCount(_, _)
\* a reduce that stops after the first face
TotTriangleCount_FirstFaceOnly(fl, k) ==
    IF k = 0 THEN 0 ELSE fl[1].number_of_triangles

TotTriangleCount(fl, k) ==
    IF k = 0 THEN 0 ELSE TotTriangleCount(fl, k - 1) + fl[k].number_of_triangles

\* addShapeToScene: tessellate, joinPrimitives, the triangle count,
\* generateGeometry, then the mesh named "shape" replaces any earlier one
AddShapeToScene ==
    LET fl == tessellate(shape)
        j == joinPrimitives(fl)
        tot_triangle_count == TotTriangleCount(fl, Len(fl))
        g == generateGeometry(tot_triangle_count, j[1], j[2], j[3])
    IN /\ scene' = Returned([name |-> "shape", vertices |-> g[1], faces |-> g[2],
                              facelist |-> fl, locVertexcoord |-> j[1],
                              locNormalcoord |-> j[2], locTriIndices |-> j[3],
                              tot_triangle_count |-> tot_triangle_count])
       /\ children' = ReplaceShape(children, [name |-> "shape", object |-> "Mesh"])
       /\ UNCHANGED <<shape, facelist, joined, visGeoms, optGeometry, shapeMesh>>
       /\ UNCHANGED <<libVars, visIndices, kernelRun, createVars, designVars, sceneCalls>>

InitScene == Init

NextScene == AddShapeToScene

SpecScene == InitScene /\ [][NextScene]_vars

\* ---------------------------------------------------------------- visualize on faces near the index limit
\* node counts on both sides of 2^16, and a small one
WideNodeCounts == {3, 65535, 65536, 65537}

\* triangle counts whose triLength lies on both sides of 65535, and small ones
WideTriCounts == {1, 2, 3, 21845, 21846}

\* triangles lo..hi of a fan around node apex over n nodes
RECURSIVE FanRange(_, _, _, _)
FanRange(n, apex, lo, hi) ==
    IF lo = hi THEN << <<apex, (lo % n) + 1, ((lo + 1) % n) + 1>> >>
    ELSE FanRange(n, apex, lo, (lo + hi) \div 2)
            \o FanRange(n, apex, ((lo + hi) \div 2) + 1, hi)

\* a fan of count triangles around node apex over n nodes
FanTris(n, apex, count) == FanRange(n, apex, 1, count)

\* one-face shapes; the fan's apex is the first or the last node of the face
WideShapes ==
    UNION {{<<[isNull |-> FALSE, nodes |-> n, tris |-> FanTris(n, apex, count), orient |-> o]>> :
                apex \in {1, n}, count \in WideTriCounts, o \in Orientations} :
           n \in WideNodeCounts}

\* visualize fills the indices array of the shape's face
VisualizeIndices ==
    /\ visIndices' = Returned([index |-> VisIndices(shape[1]),
                               indexType |-> IndexType(Len(shape[1].tris) * 3)])
    /\ UNCHANGED <<meshVars, libVars, kernelRun, createVars, designVars, sceneVars>>

InitIndex ==
    /\ shape \in WideShapes
    /\ facelist = NotCalled
    /\ joined = NotCalled
    /\ visGeoms = NotCalled
    /\ optGeometry = NotCalled
    /\ shapeMesh = NotCalled
    /\ scene = NotCalled
    /\ visIndices = NotCalled
    /\ kernelRun = NotCalled
    /\ creation = NotCalled
    /\ joistsByFloor = <<>>
    /\ designRunBtn = ButtonAtLoad
    /\ meshMaterial = <<>>
    /\ originalMaterials = <<>>
    /\ designRuns = <<>>
    /\ children = SceneAtLoad
    /\ sceneCalls = NoCalls
    /\ variant = "none"
    /\ JOIST_LIBRARY = <<>>
    /\ pending = 0
    /\ initCalls = 0
    /\ tessRuns = 0
    /\ lastCall = NotCalled
    /\ prevCall = NotCalled
    /\ lastStats = NotCalled
    /\ lastInit = NotCalled

NextIndex == VisualizeIndices

SpecIndex == InitIndex /\ [][NextIndex]_vars

\* ---------------------------------------------------------------- the face loops: kernel errors, kernel handles
\* the kernel calls a face loop makes for one face
MeshCall == "BRepMesh_IncrementalMesh_2"
TriangulationCall == "BRep_Tool.Triangulation"
NodeCall == "Node"

NoFault == [face |-> 0, call |-> "none"]

\* the kernel raises an error in one of the calls, made for one face of s; or in none
Faults(s, calls) ==
    {NoFault} \cup {[face |-> k, call |-> c] : k \in 1..Len(s), c \in calls}

Raises(fault, k, call) == fault.face = k /\ fault.call = call

\* the kernel objects the pass over the k-th face holds in the named variables
Handles(k, names) == {<<k, n>> : n \in names}

\* a face loop under way: acc is what it has collected, live the handles not
\* deleted at the end of each pass made so far
StartRun(acc) == [threw |-> FALSE, raised |-> FALSE, acc |-> acc, live |-> <<>>]

Held(run) == IF Len(run.live) = 0 THEN {} ELSE run.live[Len(run.live)]

\* the error leaves the function: nothing in these loops catches it
Throw(run) == [run EXCEPT !.threw = TRUE, !.raised = TRUE]

\* the pass ends (by continue or at the end of the body) and the loop advances
Advance(run, acc, k, acquired, deleted) ==
    [run EXCEPT !.acc = acc,
                !.live = Append(@, Held(run) \cup Handles(k, acquired \ deleted))]

\* tessellate: one pass of the for loop; no handle is deleted on any path
TessellatePass(run, k, f, fault) ==
    IF Raises(fault, k, TriangulationCall) THEN Throw(run)
    ELSE IF f.isNull
    THEN Advance(run, run.acc, k, {"myFace", "aLocation", "myT"}, {})
    ELSE IF f.nodes >= 1 /\ Raises(fault, k, NodeCall) THEN Throw(run)
    ELSE Advance(run, Append(run.acc, ThisFace(k, f)), k,
                 {"myFace", "aLocation", "myT", "pc", "myNormal", "triangles"}, {})

RECURSIVE TessellateRun(_, _, _, _)
TessellateRun(run, s, k, fault) ==
    IF run.threw \/ k > Len(s) THEN run
    ELSE TessellateRun(TessellatePass(run, k, s[k], fault), s, k + 1, fault)

\* visualize: one pass of the for loop; only the mesher's constructor is in a try
VisualizePass(run, k, f, fault) ==
    IF Raises(fault, k, MeshCall)
    THEN [Advance(run, run.acc, k, {"myShape", "myFace"}, {}) EXCEPT !.raised = TRUE]
    ELSE IF Raises(fault, k, TriangulationCall) THEN Throw(run)
    ELSE IF f.isNull
    THEN Advance(run, run.acc, k,
                 {"myShape", "myFace", "inc", "aLocation", "myT"},
                 {"inc", "myFace", "myShape", "aLocation"})
    ELSE IF f.nodes = 0 \/ Len(f.tris) = 0
    THEN Advance(run, run.acc, k,
                 {"myShape", "myFace", "inc", "aLocation", "myT", "pc"},
                 {"pc", "aLocation", "myT", "inc", "myFace", "myShape"})
    ELSE IF Raises(fault, k, NodeCall) THEN Throw(run)
    ELSE Advance(run, Append(run.acc, VisGeometry(k, f)), k,
                 {"myShape", "myFace", "inc", "aLocation", "myT", "pc", "myNormal",
                  "triangles"},
                 {"myNormal", "triangles", "pc", "aLocation", "myT", "inc", "myFace",
                  "myShape"})

RECURSIVE VisualizeRun(_, _, _, _)
VisualizeRun(run, s, k, fault) ==
    IF run.threw \/ k > Len(s) THEN run
    ELSE VisualizeRun(VisualizePass(run, k, s[k], fault), s, k + 1, fault)

\* tessellateShapeOptimized: one pass of the while loop; triangulation.delete()
\* is inside if (!triangulation.IsNull()), trans is never deleted
OptimizedPass(run, k, f, fault) ==
    IF Raises(fault, k, TriangulationCall) THEN Throw(run)
    ELSE IF f.isNull
    THEN Advance(run, run.acc, k, {"face", "location", "triangulation"},
                 {"location", "face"})
    ELSE IF f.nodes > 0 /\ Len(f.tris) > 0 /\ Raises(fault, k, NodeCall) THEN Throw(run)
    ELSE Advance(run, LoopFace(run.acc, k, f), k,
                 {"face", "location", "triangulation", "trans"},
                 {"triangulation", "location", "face"})

RECURSIVE OptimizedRun(_, _, _, _)
OptimizedRun(run, s, k, fault) ==
    IF run.threw \/ k > Len(s) THEN run
    ELSE OptimizedRun(OptimizedPass(run, k, s[k], fault), s, k + 1, fault)

\* what the caller of the function sees, and the handles left at each loop advance
KernelOutcome(fn, fault, run, value) ==
    Returned([fn |-> fn, fault |-> fault, raised |-> run.raised, threw |-> run.threw,
              value |-> IF run.threw THEN Undefined ELSE value, live |-> run.live])

TessellateOnKernel ==
    /\ \E fault \in Faults(shape, {TriangulationCall, NodeCall}) :
          LET run == TessellateRun(StartRun(<<>>), shape, 1, fault)
          IN kernelRun' = KernelOutcome("tessellate", fault, run, run.acc)
    /\ UNCHANGED <<meshVars, libVars, visIndices, createVars, designVars, sceneVars>>

VisualizeOnKernel ==
    /\ \E fault \in Faults(shape, {MeshCall, TriangulationCall, NodeCall}) :
          LET run == VisualizeRun(StartRun(<<>>), shape, 1, fault)
          IN kernelRun' = KernelOutcome("visualize", fault, run, run.acc)
    /\ UNCHANGED <<meshVars, libVars, visIndices, createVars, designVars, sceneVars>>

TessellateShapeOptimizedOnKernel ==
    /\ \E fault \in Faults(shape, {TriangulationCall, NodeCall}) :
          LET run == OptimizedRun(StartRun([allVertices |-> <<>>, allTriangles |-> <<>>,
                                            vertexOffset |-> 0]), shape, 1, fault)
          IN kernelRun' = KernelOutcome("tessellateShapeOptimized", fault, run,
                              BufferGeometry(run.acc.allVertices, run.acc.allTriangles))
    /\ UNCHANGED <<meshVars, libVars, visIndices, createVars, designVars, sceneVars>>

InitKernel == Init

NextKernel ==
    \/ TessellateOnKernel
    \/ VisualizeOnKernel
    \/ TessellateShapeOptimizedOnKernel

SpecKernel == InitKernel /\ [][NextKernel]_vars

\* ================================================================ the joist library
\* ---------------------------------------------------------------- the four library modules
\* each module is named by the length of its build loop
Variants == {"V100", "V1000", "V2000", "V10000"}

VariantCount(v) ==
    CASE v = "V100" -> 100
      [] v = "V1000" -> 1000
      [] v = "V2000" -> 2000
      [] v = "V10000" -> 10000

\* JS a % n: the remainder keeps the sign of the dividend
JsRem(a, n) == IF a >= 0 THEN a % n ELSE -((-a) % n)

\* Math.floor(a / n)
Floor(a, n) == a \div n

\* A template literal is held as the tuple of its literal pieces and numbers:
\* the pieces contain no digit and no sign, so two tuples print the same
\* string only if they are equal.
\* identifiers that leave the pattern number out
BuildKey_NoPattern(v, i) ==
    CASE v = "V100" -> <<"JOIST_48FT_36D_PATTERN_", JsRem(i, 10)>>
      [] v = "V1000" ->
            <<"JOIST_", Floor(i, 20) + 40, "FT_", 30 + (JsRem(i, 8) * 3), "D_PAT", 0,
              "_REV", Floor(i, 100)>>
      [] v = "V2000" ->
            <<"JOIST_", Floor(i, 40) + 35, "FT_", 24 + (JsRem(i, 12) * 2), "D_PAT", 0,
              "_REV", Floor(i, 200), "_SPEC", Floor(i, 50)>>
      [] v = "V10000" ->
            <<"JOIST_", Floor(i, 100) + 25, "FT_", 20 + (JsRem(i, 20) * 2), "D_PAT", 0,
              "_REV", Floor(i, 500), "_SPEC", Floor(i, 100)>>

\* variantId of loop iteration i in initializeJoistLibrary
BuildKey(v, i) ==
    CASE v = "V100" -> <<"JOIST_48FT_36D_PATTERN_", i>>
      [] v = "V1000" ->
            <<"JOIST_", Floor(i, 20) + 40, "FT_", 30 + (JsRem(i, 8) * 3), "D_PAT", JsRem(i, 50),
              "_REV", Floor(i, 100)>>
      [] v = "V2000" ->
            <<"JOIST_", Floor(i, 40) + 35, "FT_", 24 + (JsRem(i, 12) * 2), "D_PAT", JsRem(i, 75),
              "_REV", Floor(i, 200), "_SPEC", Floor(i, 50)>>
      [] v = "V10000" ->
            <<"JOIST_", Floor(i, 100) + 25, "FT_", 20 + (JsRem(i, 20) * 2), "D_PAT", JsRem(i, 150),
              "_REV", Floor(i, 500), "_SPEC", Floor(i, 100)>>

\* metadata whose pattern is numbered from one
Metadata_PatternFromOne(v, run, i) ==
    [object |-> <<"metadata", run, i>>,
     length |-> (Floor(i, 20) + 40) * 12,
     depth |-> 30 + (JsRem(i, 8) * 3),
     pattern |-> <<"WebPattern_", JsRem(i, 50) + 1>>,
     revision |-> Floor(i, 100),
     loadRating |-> 50 + (JsRem(i, 30) * 5)]

\* the metadata literal of loop iteration i of build run `run`; `object` is the
\* identity of the object the literal creates
Metadata(v, run, i) ==
    CASE v = "V100" ->
            [object |-> <<"metadata", run, i>>,
             length |-> (48 * 12) + (JsRem(i, 5) * 12),
             depth |-> 36 + (JsRem(i, 3) * 6),
             pattern |-> <<"Pattern_", JsRem(i, 10)>>]
      [] v = "V1000" ->
            [object |-> <<"metadata", run, i>>,
             length |-> (Floor(i, 20) + 40) * 12,
             depth |-> 30 + (JsRem(i, 8) * 3),
             pattern |-> <<"WebPattern_", JsRem(i, 50)>>,
             revision |-> Floor(i, 100),
             loadRating |-> 50 + (JsRem(i, 30) * 5)]
      [] v = "V2000" ->
            [object |-> <<"metadata", run, i>>,
             length |-> (Floor(i, 40) + 35) * 12,
             depth |-> 24 + (JsRem(i, 12) * 2),
             pattern |-> <<"WebPattern_", JsRem(i, 75)>>,
             revision |-> Floor(i, 200),
             specification |-> Floor(i, 50),
             loadRating |-> 40 + (JsRem(i, 40) * 4),
             steelGrade |-> <<"A36", "A572-50", "A992">>[JsRem(i, 3) + 1],
             coating |-> <<"Galvanized", "Painted", "Bare">>[JsRem(i, 3) + 1]]
      [] v = "V10000" ->
            [object |-> <<"metadata", run, i>>,
             length |-> (Floor(i, 100) + 25) * 12,
             depth |-> 20 + (JsRem(i, 20) * 2),
             pattern |-> <<"WebPattern_", JsRem(i, 150)>>,
             revision |-> Floor(i, 500),
             specification |-> Floor(i, 100),
             loadRating |-> 30 + (JsRem(i, 60) * 3)]

\* the BufferGeometry object that build run `run` got from tessellateShapeOptimized
GeometryRef(run) == [object |-> <<"tessellatedGeometry", run>>]

\* a build loop that stores a copy of the geometry for each variant
Entry_CopyPerVariant(v, run, i) ==
    [geometry |-> [object |-> <<"tessellatedGeometry", run, "copy", i>>],
     metadata |-> Metadata(v, run, i)]

\* the value JOIST_LIBRARY.set stores in loop iteration i of build run `run`
Entry(v, run, i) == [geometry |-> GeometryRef(run), metadata |-> Metadata(v, run, i)]

\* ---------------------------------------------------------------- the structural hash
\* ((baseHash * 2654435761) % 4294967296) % 10000, computed on 16-bit limbs:
\* 2654435761 = 40503 * 65536 + 31153 and 65536 % 10000 = 5536. The product is
\* below 2^53 for the magnitudes used here, so the JS doubles are exact.
KnuthHash(baseHash) ==
    LET m == IF baseHash >= 0 THEN baseHash ELSE -baseHash
        lo == m * 31153
        high == ((m * 40503) + (lo \div 65536)) % 65536
        low == lo % 65536
        r == ((high * 5536) + low) % 10000
    IN IF baseHash >= 0 THEN r ELSE -r

\* variantIndex / structuralHash of instantiateJoistFromLibrary
StructuralHash(v, joistIndex, bayIndex, floorIndex) ==
    CASE v = "V100" -> JsRem(joistIndex + (bayIndex * 7) + (floorIndex * 13), 100)
      [] v = "V1000" -> JsRem((joistIndex * 7) + (bayIndex * 23) + (floorIndex * 41), 1000)
      [] v = "V2000" -> JsRem((joistIndex * 11) + (bayIndex * 31) + (floorIndex * 53), 2000)
      [] v = "V10000" -> KnuthHash(joistIndex + (bayIndex * 100) + (floorIndex * 1000))

HashOf(v, c) == StructuralHash(v, c[1], c[2], c[3])

\* a lookup that folds the hash into half the range before deriving the identifier
LookupKey_HalfModulus(v, structuralHash) ==
    BuildKey(v, JsRem(structuralHash, VariantCount(v) \div 2))

\* variantId that instantiateJoistFromLibrary derives from the hash
LookupKey(v, structuralHash) ==
    CASE v = "V100" -> <<"JOIST_48FT_36D_PATTERN_", structuralHash>>
      [] v = "V1000" ->
            LET lengthCategory == Floor(structuralHash, 20) + 40
                depthCategory == 30 + (JsRem(structuralHash, 8) * 3)
                patternNum == JsRem(structuralHash, 50)
                revision == Floor(structuralHash, 100)
            IN <<"JOIST_", lengthCategory, "FT_", depthCategory, "D_PAT", patternNum,
                 "_REV", revision>>
      [] v = "V2000" ->
            LET lengthCategory == Floor(structuralHash, 40) + 35
                depthCategory == 24 + (JsRem(structuralHash, 12) * 2)
                patternNum == JsRem(structuralHash, 75)
                revision == Floor(structuralHash, 200)
                specification == Floor(structuralHash, 50)
            IN <<"JOIST_", lengthCategory, "FT_", depthCategory, "D_PAT", patternNum,
                 "_REV", revision, "_SPEC", specification>>
      [] v = "V10000" ->
            LET lengthCategory == Floor(structuralHash, 100) + 25
                depthCategory == 20 + (JsRem(structuralHash, 20) * 2)
                patternNum == JsRem(structuralHash, 150)
                revision == Floor(structuralHash, 500)
                specification == Floor(structuralHash, 100)
            IN <<"JOIST_", lengthCategory, "FT_", depthCategory, "D_PAT", patternNum,
                 "_REV", revision, "_SPEC", specification>>

\* ---------------------------------------------------------------- the Map
\* JOIST_LIBRARY is written only by the build loop of initializeJoistLibrary,
\* which runs from its first set to its last without a suspension point and
\* sets the identifiers of iterations 0..N-1 on every run. The variable holds
\* the numbers of the build runs that have written the Map, oldest first
\* (<<>> is the new Map()); MapHas, MapGet and MapSize read the Map that those
\* runs leave behind.

\* the sets of iterations lo..hi, later iterations overwriting earlier ones:
\* identifier -> the iteration whose value the Map keeps
RECURSIVE SetRange(_, _, _)
SetRange(v, lo, hi) ==
    IF lo = hi THEN BuildKey(v, lo) :> lo
    ELSE LET mid == (lo + hi) \div 2
         IN SetRange(v, mid + 1, hi) @@ SetRange(v, lo, mid)

\* for (let i = 0; i < N; i++) JOIST_LIBRARY.set(variantId, ...)
LoopWrites == [v \in Variants |-> SetRange(v, 0, VariantCount(v) - 1)]

MapHas(lib, k) == lib # <<>> /\ k \in DOMAIN LoopWrites[variant]

MapGet(lib, k) ==
    IF MapHas(lib, k)
    THEN Entry(variant, lib[Len(lib)], LoopWrites[variant][k])
    ELSE Undefined

\* a container that keeps the entries of every build run side by side
MapSize_CountsWrites(lib) == Len(lib) * Cardinality(DOMAIN LoopWrites[variant])

MapSize(lib) == IF lib = <<>> THEN 0 ELSE Cardinality(DOMAIN LoopWrites[variant])

\* the identifiers the Map holds
MapKeys(lib) == {k \in DOMAIN LoopWrites[variant] : MapHas(lib, k)}

\* ---------------------------------------------------------------- bounds of the library runs
MaxInits == 2
MaxCoord == 1

\* the joist that CreateJoist builds, after the rotation: a forward and a
\* reversed face, both triangulated
TemplateShape ==
    <<[isNull |-> FALSE, nodes |-> 3, tris |-> << <<1, 2, 3>> >>, orient |-> FORWARD],
      [isNull |-> FALSE, nodes |-> 3, tris |-> << <<3, 2, 1>>, <<2, 3, 1>> >>,
       orient |-> REVERSED]>>

\* two coordinate triples with the same structural hash, for each module
Colliding(v) ==
    CASE v = "V100" -> {<<7, 0, 0>>, <<0, 1, 0>>}
      [] v = "V1000" -> {<<23, 0, 0>>, <<0, 7, 0>>}
      [] v = "V2000" -> {<<31, 0, 0>>, <<0, 11, 0>>}
      [] v = "V10000" -> {<<100, 0, 0>>, <<0, 1, 0>>}

\* the (joistIndex, bayIndex, floorIndex) arguments tried
Coords(v) ==
    {<<j, 0, 0>> : j \in (-1)..MaxCoord}
        \cup {<<0, b, 0>> : b \in 1..MaxCoord}
        \cup {<<0, 0, f>> : f \in 1..MaxCoord}
        \cup {<<MaxCoord, MaxCoord, MaxCoord>>}
        \cup Colliding(v)

\* ---------------------------------------------------------------- the library's functions
\* a lookup that hands out a placeholder box when the identifier is missing
InstantiateOutcome_Fallback(lib, joistIndex, bayIndex, floorIndex) ==
    LET structuralHash == StructuralHash(variant, joistIndex, bayIndex, floorIndex)
        variantId == LookupKey(variant, structuralHash)
        libraryEntry == MapGet(lib, variantId)
    IN IF ~MapHas(lib, variantId)
       THEN [threw |-> FALSE,
             value |-> [geometry |-> [object |-> <<"BoxGeometry">>],
                        metadata |-> [object |-> <<"default">>],
                        variantId |-> variantId]]
       ELSE [threw |-> FALSE,
             value |-> [geometry |-> libraryEntry.geometry,
                        metadata |-> libraryEntry.metadata,
                        variantId |-> variantId]]

\* the outcome of one instantiateJoistFromLibrary(joistIndex, bayIndex, floorIndex)
\* on the Map lib: the object returned, or the Error thrown
InstantiateOutcome(lib, joistIndex, bayIndex, floorIndex) ==
    LET structuralHash == StructuralHash(variant, joistIndex, bayIndex, floorIndex)
        variantId == LookupKey(variant, structuralHash)
        libraryEntry == MapGet(lib, variantId)
    IN IF ~MapHas(lib, variantId)    \* !libraryEntry: every stored value is an object
       THEN [threw |-> TRUE,
             error |-> <<"Joist variant ", variantId, " not found in library">>]
       ELSE [threw |-> FALSE,
             value |-> [geometry |-> libraryEntry.geometry,
                        metadata |-> libraryEntry.metadata,
                        variantId |-> variantId]]

\* the object getLibraryStats returns
LibraryStats(lib) ==
    [totalVariants |-> MapSize(lib),
     memoryFootprint |-> <<"~", MapSize(lib) * 2, ".0MB">>]

\* what a call left behind: its arguments, its outcome, and the library and
\* the run count as they were when it started and when it ended
CallRecord(args, outcome, libBefore, libAfter, tessBefore, tessAfter) ==
    [called |-> TRUE, args |-> args, outcome |-> outcome,
     libBefore |-> libBefore, libAfter |-> libAfter,
     tessBefore |-> tessBefore, tessAfter |-> tessAfter]

\* a build whose loop runs whether or not an earlier statement threw
LibraryAfter_StoresOnFailure(lib, run, threwAt) == Append(lib, run)

\* the Map after initializeJoistLibrary: the loop that writes it comes after
\* await CreateJoist and tessellateShapeOptimized, and is not reached when one
\* of them throws
LibraryAfter(lib, run, threwAt) ==
    IF threwAt = "none" THEN Append(lib, run) ELSE lib

\* ---------------------------------------------------------------- the library: the state machine
InitLib ==
    /\ shape = TemplateShape
    /\ facelist = NotCalled
    /\ joined = NotCalled
    /\ visGeoms = NotCalled
    /\ optGeometry = NotCalled
    /\ shapeMesh = NotCalled
    /\ scene = NotCalled
    /\ variant \in Variants
    /\ JOIST_LIBRARY = <<>>
    /\ pending = 0
    /\ initCalls = 0
    /\ tessRuns = 0
    /\ lastCall = NotCalled
    /\ prevCall = NotCalled
    /\ lastStats = NotCalled
    /\ lastInit = NotCalled
    /\ visIndices = NotCalled
    /\ kernelRun = NotCalled
    /\ creation = NotCalled
    /\ joistsByFloor = <<>>
    /\ designRunBtn = ButtonAtLoad
    /\ meshMaterial = <<>>
    /\ originalMaterials = <<>>
    /\ designRuns = <<>>
    /\ children = SceneAtLoad
    /\ sceneCalls = NoCalls

\* initializeJoistLibrary(oc) is called and suspends at await CreateJoist(oc)
InitializeStart ==
    /\ initCalls < MaxInits
    /\ initCalls' = initCalls + 1
    /\ pending' = pending + 1
    /\ UNCHANGED <<meshVars, faceVars, variant, JOIST_LIBRARY, tessRuns, lastCall, prevCall, lastStats,
                   lastInit>>

\* CreateJoist resolved: the joist is rotated, consolidated once, and the loop
\* stores the one geometry under every identifier
InitializeResume ==
    /\ pending > 0
    /\ pending' = pending - 1
    /\ tessRuns' = tessRuns + 1
    /\ optGeometry' = Returned(tessellateShapeOptimized(shape))
    /\ JOIST_LIBRARY' = LibraryAfter(JOIST_LIBRARY, tessRuns', "none")
    /\ lastInit' = CallRecord(<<>>, [threw |-> FALSE, value |-> Undefined],
                              JOIST_LIBRARY, JOIST_LIBRARY', tessRuns, tessRuns')
    /\ UNCHANGED <<shape, facelist, joined, visGeoms, shapeMesh, scene, faceVars>>
    /\ UNCHANGED <<variant, initCalls, lastCall, prevCall, lastStats>>

\* CreateJoist rejected: the await throws and the promise of
\* initializeJoistLibrary rejects before anything else has run
InitializeCreateJoistFails ==
    /\ pending > 0
    /\ pending' = pending - 1
    /\ UNCHANGED <<meshVars, faceVars, variant, initCalls, tessRuns, lastCall, prevCall, lastStats>>
    /\ JOIST_LIBRARY' = LibraryAfter(JOIST_LIBRARY, tessRuns + 1, "CreateJoist")
    /\ lastInit' = CallRecord(<<>>, [threw |-> TRUE, error |-> "CreateJoist"],
                              JOIST_LIBRARY, JOIST_LIBRARY', tessRuns, tessRuns')

\* CreateJoist resolved but the kernel throws inside tessellateShapeOptimized
\* (line 29): nothing catches it, the loop is never reached, the promise rejects
InitializeTessellateFails ==
    /\ pending > 0
    /\ pending' = pending - 1
    /\ UNCHANGED <<meshVars, faceVars, variant, initCalls, tessRuns, lastCall, prevCall, lastStats>>
    /\ JOIST_LIBRARY' = LibraryAfter(JOIST_LIBRARY, tessRuns + 1, "tessellateShapeOptimized")
    /\ lastInit' = CallRecord(<<>>, [threw |-> TRUE, error |-> "tessellateShapeOptimized"],
                              JOIST_LIBRARY, JOIST_LIBRARY', tessRuns, tessRuns')

\* a lookup that consolidates the joist again and stores the new geometry
Instantiate_Retessellate(c) ==
    /\ tessRuns < MaxInits
    /\ tessRuns' = tessRuns + 1
    /\ JOIST_LIBRARY' = Append(JOIST_LIBRARY, tessRuns')
    /\ prevCall' = lastCall
    /\ lastCall' = CallRecord(c, InstantiateOutcome(JOIST_LIBRARY', c[1], c[2], c[3]),
                              JOIST_LIBRARY, JOIST_LIBRARY', tessRuns, tessRuns')
    /\ UNCHANGED <<meshVars, faceVars, variant, pending, initCalls, lastStats, lastInit>>

\* instantiateJoistFromLibrary(joistIndex, bayIndex, floorIndex)
Instantiate(c) ==
    /\ UNCHANGED <<meshVars, faceVars, variant, JOIST_LIBRARY, pending, initCalls, tessRuns, lastStats,
                   lastInit>>
    /\ prevCall' = lastCall
    /\ lastCall' = CallRecord(c, InstantiateOutcome(JOIST_LIBRARY, c[1], c[2], c[3]),
                              JOIST_LIBRARY, JOIST_LIBRARY', tessRuns, tessRuns')

\* a statistics call that empties the Map after reading it
GetLibraryStats_Clears ==
    /\ JOIST_LIBRARY' = <<>>
    /\ UNCHANGED <<meshVars, faceVars, variant, pending, initCalls, tessRuns, lastCall, prevCall, lastInit>>
    /\ lastStats' = CallRecord(<<>>, [threw |-> FALSE, value |-> LibraryStats(JOIST_LIBRARY)],
                               JOIST_LIBRARY, JOIST_LIBRARY', tessRuns, tessRuns')

\* getLibraryStats()
GetLibraryStats ==
    /\ UNCHANGED <<meshVars, faceVars, variant, JOIST_LIBRARY, pending, initCalls, tessRuns, lastCall,
                   prevCall, lastInit>>
    /\ lastStats' = CallRecord(<<>>, [threw |-> FALSE, value |-> LibraryStats(JOIST_LIBRARY)],
                               JOIST_LIBRARY, JOIST_LIBRARY', tessRuns, tessRuns')

NextLib ==
    \/ InitializeStart
    \/ InitializeResume
    \/ InitializeCreateJoistFails
    \/ InitializeTessellateFails
    \/ \E c \in Coords(variant) : Instantiate(c)
    \/ GetLibraryStats

SpecLib == InitLib /\ [][NextLib]_vars

\* ================================================================ the demos
\* ---------------------------------------------------------------- the joist-creation loops
\* the grid of the largest demo building
joistsPerBay == 100
numberOfBays == 10
numberOfFloors == 10

BATCH_SIZE == 25

CreationFunctions ==
    {"createJoistsInBatches", "createJoistsFromLibrary", "createBigKahunaJoists"}

\* buildingConfig, bigKahunaConfig and the constants of createJoistsInBatches:
\* five floors, ten in The Big Kahuna
BuildingConfig(fn) ==
    [joistsPerBay |-> joistsPerBay,
     numberOfBays |-> numberOfBays,
     numberOfFloors |-> IF fn = "createBigKahunaJoists" THEN numberOfFloors ELSE 5]

TotalJoists(fn) ==
    BuildingConfig(fn).numberOfFloors * BuildingConfig(fn).numberOfBays
        * BuildingConfig(fn).joistsPerBay

\* the library module each page imports
LibraryOf(fn) ==
    CASE fn = "createJoistsFromLibrary" -> "V1000"
      [] fn = "createBigKahunaJoists" -> "V10000"
      [] OTHER -> "none"

\* a loop that cedes control only once every joist exists
YieldsAfter_OnlyAtEnd(fn, joistCount, totalJoists) == joistCount = totalJoists

\* whether the library loops await the zero-delay timer after joist number joistCount
YieldsAfter(fn, joistCount, totalJoists) ==
    IF fn = "createJoistsFromLibrary"
    THEN joistCount % 100 = 0 \/ joistCount = totalJoists
    ELSE (joistCount % 50 = 0 \/ joistCount = totalJoists) /\ joistCount % 200 = 0

Max(a, b) == IF a >= b THEN a ELSE b

\* the locals of a creation function at its first statement; sinceYield counts
\* the joists made since the function last ceded control, longestRun is the
\* largest value it has reached
StartCreation(fn) ==
    [called |-> TRUE, fn |-> fn, status |-> "running",
     floorIndex |-> 0, bayIndex |-> 0, batchStart |-> 0, joistIndex |-> 0,
     joistCount |-> 0, totalJoists |-> TotalJoists(fn),
     allMeshes |-> <<>>, uniqueVariants |-> {},
     sinceYield |-> 0, longestRun |-> 0, yields |-> 0]

\* a mesh that is filed under floor 0 whatever its floor
FileUnder_FirstFloor(jbf, floorIndex, mesh) == [jbf EXCEPT ![1] = Append(@, mesh)]

\* joistsByFloor[floorIndex].push(mesh)
FileUnder(jbf, floorIndex, mesh) == [jbf EXCEPT ![floorIndex + 1] = Append(@, mesh)]

\* joistCount++ and the bookkeeping of the run since the last yield
Counted(c, yield) ==
    [c EXCEPT !.joistCount = @ + 1,
              !.sinceYield = IF yield THEN 0 ELSE @ + 1,
              !.longestRun = Max(@, c.sinceYield + 1),
              !.yields = IF yield THEN @ + 1 ELSE @,
              !.status = IF yield THEN "suspended" ELSE "running"]

\* joistIndex++, then the loop tests of the three nested for loops
NextJoist(c) ==
    LET cfg == BuildingConfig(c.fn)
    IN IF c.joistIndex + 1 < cfg.joistsPerBay
       THEN [c EXCEPT !.joistIndex = @ + 1]
       ELSE IF c.bayIndex + 1 < cfg.numberOfBays
       THEN [c EXCEPT !.joistIndex = 0, !.bayIndex = @ + 1]
       ELSE [c EXCEPT !.joistIndex = 0, !.bayIndex = 0, !.floorIndex = @ + 1]

\* one pass of the innermost loop of createJoistsFromLibrary / createBigKahunaJoists:
\* the looked-up joist is bound once, the counters move, and the mesh is pushed.
\* A mesh object is known by its position in allMeshes, the order of creation;
\* joistsByFloor holds these references, and userData.metadata the reference to
\* the library entry's metadata object.
LibraryPass(c, jbf) ==
    LET Body(joistData) ==
            IF joistData.threw
            THEN <<[c EXCEPT !.status = "threw"], jbf>>
            ELSE LET mesh == [geometry |-> joistData.value.geometry,
                              userData |-> [variantId |-> joistData.value.variantId,
                                            metadata |-> joistData.value.metadata.object,
                                            floor |-> c.floorIndex,
                                            bay |-> c.bayIndex,
                                            joist |-> c.joistIndex]]
                     yield == YieldsAfter(c.fn, c.joistCount + 1, c.totalJoists)
                 IN <<[NextJoist(Counted(c, yield))
                          EXCEPT !.allMeshes = Append(@, mesh),
                                 !.uniqueVariants = @ \cup {joistData.value.variantId}],
                      FileUnder(jbf, c.floorIndex, Len(c.allMeshes) + 1)>>
    IN CHOOSE r \in {Body(d) : d \in {InstantiateOutcome(JOIST_LIBRARY, c.joistIndex,
                                                         c.bayIndex, c.floorIndex)}} : TRUE

\* batchStart += BATCH_SIZE, then the loop tests of the three outer for loops
NextBatch(c) ==
    LET cfg == BuildingConfig(c.fn)
    IN IF c.batchStart + BATCH_SIZE < cfg.joistsPerBay
       THEN [c EXCEPT !.batchStart = @ + BATCH_SIZE, !.joistIndex = c.batchStart + BATCH_SIZE]
       ELSE IF c.bayIndex + 1 < cfg.numberOfBays
       THEN [c EXCEPT !.batchStart = 0, !.joistIndex = 0, !.bayIndex = @ + 1]
       ELSE [c EXCEPT !.batchStart = 0, !.joistIndex = 0, !.bayIndex = 0,
                      !.floorIndex = @ + 1]

\* one pass of the innermost loop of createJoistsInBatches; the await after the
\* batch's loop is taken when joistIndex reaches batchEnd. await CreateUniqueJoist
\* resumes from the microtask queue and does not cede control to the host.
BatchPass(c, jbf) ==
    LET batchEnd == IF c.batchStart + BATCH_SIZE <= BuildingConfig(c.fn).joistsPerBay
                    THEN c.batchStart + BATCH_SIZE
                    ELSE BuildingConfig(c.fn).joistsPerBay
        mesh == [geometry |-> tessellateShape(TemplateShape),
                 floor |-> c.floorIndex, bay |-> c.bayIndex, joist |-> c.joistIndex]
        yield == ~(c.joistIndex + 1 < batchEnd)
    IN <<[IF yield THEN NextBatch(Counted(c, yield))
                   ELSE [Counted(c, yield) EXCEPT !.joistIndex = @ + 1]
             EXCEPT !.allMeshes = Append(@, mesh)],
         jbf>>

\* the loop test of the outermost for loop, then one pass of the innermost body
OnePass(c, jbf) ==
    IF ~(c.floorIndex < BuildingConfig(c.fn).numberOfFloors)
    THEN <<[c EXCEPT !.status = "returned"], jbf>>
    ELSE IF c.fn = "createJoistsInBatches" THEN BatchPass(c, jbf)
    ELSE LibraryPass(c, jbf)

\* at most n passes from st = <<locals, joistsByFloor>>, stopping where the
\* function awaits the timer, returns or throws
RECURSIVE RunPasses(_, _)
RunPasses(st, n) ==
    CHOOSE r \in {IF s[1].status # "running" \/ k = 0 THEN s
                  ELSE IF k = 1 THEN OnePass(s[1], s[2])
                  ELSE RunPasses(RunPasses(s, k \div 2), k - (k \div 2)) :
                  s \in {st}, k \in {n}} : TRUE

\* the function runs until it awaits the timer, returns or throws: no run has
\* more passes than there are joists, plus the pass that ends the loops
RunToYield(c, jbf) == RunPasses(<<c, jbf>>, c.totalJoists + 1)

\* the call, up to its first await: the library loops start by replacing joistsByFloor
CreateCall(fn) ==
    /\ ~creation.called
    /\ variant = LibraryOf(fn)
    /\ LET jbf == IF fn = "createJoistsInBatches" THEN joistsByFloor
                  ELSE [f \in 1..BuildingConfig(fn).numberOfFloors |-> <<>>]
       IN \E r \in {RunToYield(StartCreation(fn), jbf)} :
              /\ creation' = r[1]
              /\ joistsByFloor' = r[2]
    /\ UNCHANGED <<meshVars, libVars, visIndices, kernelRun, designVars, sceneVars>>

\* the zero-delay timer fires and the function goes on
CreateResume ==
    /\ creation.called
    /\ creation.status = "suspended"
    /\ \E r \in {RunToYield([creation EXCEPT !.status = "running"], joistsByFloor)} :
          /\ creation' = r[1]
          /\ joistsByFloor' = r[2]
    /\ UNCHANGED <<meshVars, libVars, visIndices, kernelRun, designVars, sceneVars>>

\* a page after initializeJoistLibrary has completed (the library pages) or
\* with no library (the page of createJoistsInBatches)
InitCreate ==
    /\ shape = TemplateShape
    /\ facelist = NotCalled
    /\ joined = NotCalled
    /\ visGeoms = NotCalled
    /\ optGeometry = Returned(tessellateShapeOptimized(TemplateShape))
    /\ shapeMesh = NotCalled
    /\ scene = NotCalled
    /\ visIndices = NotCalled
    /\ kernelRun = NotCalled
    /\ creation = NotCalled
    /\ joistsByFloor = <<>>
    /\ designRunBtn = ButtonAtLoad
    /\ meshMaterial = <<>>
    /\ originalMaterials = <<>>
    /\ designRuns = <<>>
    /\ children = SceneAtLoad
    /\ sceneCalls = NoCalls
    /\ variant \in {"none", "V1000", "V10000"}
    /\ JOIST_LIBRARY = IF variant = "none" THEN <<>> ELSE <<1>>
    /\ pending = 0
    /\ initCalls = IF variant = "none" THEN 0 ELSE 1
    /\ tessRuns = IF variant = "none" THEN 0 ELSE 1
    /\ lastCall = NotCalled
    /\ prevCall = NotCalled
    /\ lastStats = NotCalled
    /\ lastInit = NotCalled

NextCreate ==
    \/ \E fn \in CreationFunctions : CreateCall(fn)
    \/ CreateResume

SpecCreate == InitCreate /\ [][NextCreate]_vars

SpecCreateFair == SpecCreate /\ WF_vars(NextCreate)

\* ================================================================ properties
\* ---------------------------------------------------------------- what the kernel's faces say
RECURSIVE SumSeq(_, _)
SumSeq(q, k) == IF k = 0 THEN 0 ELSE q[k] + SumSeq(q, k - 1)

IsTriangulated(f) == ~f.isNull
IsMerged(f) == ~f.isNull /\ f.nodes > 0 /\ Len(f.tris) > 0

\* the members of a set of face positions, in traversal order
Ascending(I) ==
    [i \in 1..Cardinality(I) |-> CHOOSE k \in I : Cardinality({m \in I : m < k}) = i - 1]

TriangulatedAt == Ascending({k \in 1..Len(shape) : IsTriangulated(shape[k])})
MergedAt == Ascending({k \in 1..Len(shape) : IsMerged(shape[k])})

NodeCounts(at) == [k \in 1..Len(at) |-> shape[at[k]].nodes]
TriCounts(at) == [k \in 1..Len(at) |-> Len(shape[at[k]].tris)]

IndexOf(geometry) == IF geometry.index = NoIndex THEN <<>> ELSE geometry.index

\* verts/idx are the merge of the faces at positions `at`: sizes are the sums,
\* and every index of the k-th merged face lies in [c1+..+c(k-1), c1+..+ck)
OffsetsExact(verts, idx, at) ==
    LET c == NodeCounts(at)
        t == TriCounts(at)
    IN /\ Len(verts) = 3 * SumSeq(c, Len(c))
       /\ Len(idx) = 3 * SumSeq(t, Len(t))
       /\ \A k \in 1..Len(at) : \A j \in 1..(3 * t[k]) :
            LET v == idx[(3 * SumSeq(t, k - 1)) + j]
            IN v \in Int /\ SumSeq(c, k - 1) <= v /\ v < SumSeq(c, k)

\* C1 as stated: for the faces F1..Fn that have a triangulation (node counts
\* c1..cn), joinPrimitives and tessellateShapeOptimized both give c1+...+cn
\* merged vertices and keep every index of Fk in [c1+..+c(k-1), c1+..+ck).
C1_AsStated ==
    /\ joined.called => OffsetsExact(joined.value[1], joined.value[3], TriangulatedAt)
    /\ optGeometry.called =>
         OffsetsExact(optGeometry.value.position, IndexOf(optGeometry.value), TriangulatedAt)

\* C1 (amended): the merged vertex count is the sum of the node counts of the
\* faces that are merged, and every merged index of the k-th merged face lies in
\* [sum of the node counts merged before it, that sum plus its own node count).
\* joinPrimitives merges every face it is given; tessellateShapeOptimized merges
\* only the faces that have at least one node and at least one triangle.
C1_OffsetsExact ==
    /\ joined.called => OffsetsExact(joined.value[1], joined.value[3], TriangulatedAt)
    /\ optGeometry.called =>
         OffsetsExact(optGeometry.value.position, IndexOf(optGeometry.value), MergedAt)

\* two faces with triangles were merged by both routines
C1_Witness ==
    /\ joined.called
    /\ optGeometry.called
    /\ Len(MergedAt) = 2
    /\ Len(IndexOf(optGeometry.value)) >= 6
    /\ Len(joined.value[3]) >= 6

\* ---------------------------------------------------------------- winding
\* the t-th triple of a flat index sequence
TripleAt(idx, t) == <<idx[(3 * t) - 2], idx[(3 * t) - 1], idx[3 * t]>>

\* what winding correction is to give for the kernel triangle (n1, n2, n3)
Corrected(tri, orient) ==
    IF orient = FORWARD THEN tri ELSE <<tri[2], tri[1], tri[3]>>

Shifted(tri, d) == <<tri[1] + d, tri[2] + d, tri[3] + d>>

\* C3: in openCascadeHelper.tessellate and in visualize a triangle (n1, n2, n3)
\* of a forward face is emitted unchanged, and on a face that is not forward it
\* is emitted as (n2, n1, n3): the first two swapped, the third untouched
\* (tessellate keeps the kernel's 1-based numbers, visualize stores them 0-based).
C3_WindingPerTriangle ==
    /\ facelist.called =>
         /\ Len(facelist.value) = Len(TriangulatedAt)
         /\ \A k \in 1..Len(TriangulatedAt) :
              LET f == shape[TriangulatedAt[k]]
                  out == facelist.value[k].tri_indexes
              IN /\ Len(out) = 3 * Len(f.tris)
                 /\ \A t \in 1..Len(f.tris) :
                      TripleAt(out, t) = Corrected(f.tris[t], f.orient)
    /\ visGeoms.called =>
         /\ Len(visGeoms.value) = Len(MergedAt)
         /\ \A k \in 1..Len(MergedAt) :
              LET f == shape[MergedAt[k]]
                  out == visGeoms.value[k].index
              IN /\ Len(out) = 3 * Len(f.tris)
                 /\ \A t \in 1..Len(f.tris) :
                      TripleAt(out, t) = Shifted(Corrected(f.tris[t], f.orient), -1)

\* both routines ran on a shape with a forward and a reversed face, both with triangles
C3_Witness ==
    /\ facelist.called
    /\ visGeoms.called
    /\ \E k \in 1..Len(shape) : IsMerged(shape[k]) /\ shape[k].orient = FORWARD
    /\ \E k \in 1..Len(shape) : IsMerged(shape[k]) /\ shape[k].orient = REVERSED

\* the index sequence is the merged faces' triangles, winding-corrected and rebased
MergedWindingCorrected(idx, at) ==
    LET c == NodeCounts(at)
        t == TriCounts(at)
    IN /\ Len(idx) = 3 * SumSeq(t, Len(t))
       /\ \A k \in 1..Len(at) : \A j \in 1..t[k] :
            TripleAt(idx, SumSeq(t, k - 1) + j) =
                Shifted(Corrected(shape[at[k]].tris[j], shape[at[k]].orient),
                        SumSeq(c, k - 1) - 1)

\* C4: every consolidation path, tessellateShapeOptimized (whose output the
\* library stores) and tessellateShape included, emits each triangle of a
\* face that is not forward with its first two indices swapped.
C4_EveryPathCorrectsWinding ==
    /\ optGeometry.called => MergedWindingCorrected(IndexOf(optGeometry.value), MergedAt)
    /\ (shapeMesh.called /\ shapeMesh.value.geometry.type = "BufferGeometry") =>
         MergedWindingCorrected(IndexOf(shapeMesh.value.geometry), MergedAt)

\* ---------------------------------------------------------------- empty and skipped faces
\* C8: a shape with no triangulatable face consolidates to a valid empty mesh
\* (no vertices, no normals, no indices), with no error and no placeholder
\* geometry: joinPrimitives on an empty face list, tessellateShapeOptimized
\* and tessellateShape.
C8_EmptyShapeEmptyMesh ==
    /\ (joined.called /\ facelist.value = <<>>) => joined.value = <<<<>>, <<>>, <<>>>>
    /\ (optGeometry.called /\ MergedAt = <<>>) =>
         /\ optGeometry.value.type = "BufferGeometry"
         /\ optGeometry.value.position = <<>>
         /\ IndexOf(optGeometry.value) = <<>>
    /\ (shapeMesh.called /\ MergedAt = <<>>) =>
         /\ shapeMesh.value.geometry.type = "BufferGeometry"
         /\ shapeMesh.value.geometry.position = <<>>
         /\ IndexOf(shapeMesh.value.geometry) = <<>>

\* C9: a face with no triangulation, with zero nodes or with zero triangles
\* contributes no vertices, normals or indices and leaves the offsets of the
\* faces after it unchanged, in tessellate + joinPrimitives, in visualize and
\* in tessellateShapeOptimized: each result is the merge of the other faces alone.
C9_SkippedFacesContributeNothing ==
    /\ joined.called =>
         /\ OffsetsExact(joined.value[1], joined.value[3], MergedAt)
         /\ Len(joined.value[2]) = Len(joined.value[1])
    /\ visGeoms.called =>
         /\ Len(visGeoms.value) = Len(MergedAt)
         /\ \A k \in 1..Len(MergedAt) :
              Len(visGeoms.value[k].position) = 3 * shape[MergedAt[k]].nodes
    /\ optGeometry.called =>
         OffsetsExact(optGeometry.value.position, IndexOf(optGeometry.value), MergedAt)

\* ---------------------------------------------------------------- library: identifiers
\* the call started on a populated library
Populated(call) == call.libBefore # <<>>

NonNegative(c) == c[1] >= 0 /\ c[2] >= 0 /\ c[3] >= 0

\* the record that iteration i of the run that last wrote lib stored
StoredBy(lib, i) == Entry(variant, lib[Len(lib)], i)

\* for every h in [0, N) lookup derives the identifier that build iteration h set
KeysAgree ==
    [v \in Variants |-> \A h \in 0..(VariantCount(v) - 1) : LookupKey(v, h) = BuildKey(v, h)]

\* every grid position hashes into [0, N)
HashInRange ==
    [v \in Variants |->
        \A j \in 0..(joistsPerBay - 1) : \A b \in 0..(numberOfBays - 1) :
            \A f \in 0..(numberOfFloors - 1) :
                StructuralHash(v, j, b, f) \in 0..(VariantCount(v) - 1)]

\* C2: in each of the four modules the identifier rebuilt from a hash h in
\* [0, N) is the identifier the build loop set for i = h, and on a populated
\* library a call with non-negative coordinates returns the record stored
\* under that identifier, with variantId equal to it, and does not throw.
C2_LookupMatchesBuild ==
    /\ KeysAgree[variant]
    /\ HashInRange[variant]
    /\ (lastCall.called /\ Populated(lastCall) /\ NonNegative(lastCall.args)) =>
         LET h == HashOf(variant, lastCall.args)
         IN /\ h \in 0..(VariantCount(variant) - 1)
            /\ ~lastCall.outcome.threw
            /\ lastCall.outcome.value.variantId = BuildKey(variant, h)
            /\ lastCall.outcome.value.geometry = StoredBy(lastCall.libBefore, h).geometry
            /\ lastCall.outcome.value.metadata = StoredBy(lastCall.libBefore, h).metadata

\* a lookup away from the origin returned on the populated 10000-variant library
C2_Witness ==
    /\ variant = "V10000"
    /\ lastCall.called
    /\ Populated(lastCall)
    /\ lastCall.args = <<MaxCoord, MaxCoord, MaxCoord>>
    /\ ~lastCall.outcome.threw

\* no iteration of the build loop overwrites the identifier of another
KeysDistinct ==
    [v \in Variants |->
        \A i \in 0..(VariantCount(v) - 1) : LoopWrites[v][BuildKey(v, i)] = i]

C7_AbsentKeyThrows ==
    (/\ lastCall.called
     /\ ~MapHas(lastCall.libBefore, LookupKey(variant, HashOf(variant, lastCall.args)))) =>
        /\ lastCall.outcome.threw
        /\ "value" \notin DOMAIN lastCall.outcome
        /\ lastCall.libAfter = lastCall.libBefore

\* a lookup threw before the library was populated, and another threw after
C7_Witness ==
    /\ prevCall.called
    /\ lastCall.called
    /\ ~Populated(prevCall)
    /\ prevCall.outcome.threw
    /\ Populated(lastCall)
    /\ lastCall.outcome.threw

\* C10: instantiateJoistFromLibrary and getLibraryStats leave the library as
\* they found it, whether they return or throw: the Map is at all times what
\* the completed build runs wrote, with the key set and size of the build.
C10_LookupsReadOnly ==
    /\ lastCall.called => lastCall.libAfter = lastCall.libBefore
    /\ lastStats.called => lastStats.libAfter = lastStats.libBefore
    /\ JOIST_LIBRARY = [r \in 1..tessRuns |-> r]
    /\ MapSize(JOIST_LIBRARY) = (IF tessRuns = 0 THEN 0 ELSE VariantCount(variant))

\* on a populated library a lookup returned, a lookup threw, and the statistics were read
C10_Witness ==
    /\ JOIST_LIBRARY # <<>>
    /\ prevCall.called
    /\ lastCall.called
    /\ lastStats.called
    /\ Populated(prevCall)
    /\ Populated(lastStats)
    /\ ~prevCall.outcome.threw
    /\ lastCall.outcome.threw

\* ---------------------------------------------------------------- library: rebuilding
\* C11: the library is built exactly once and its records never change
\* afterwards: once a build has completed, a further initializeJoistLibrary
\* runs no consolidation and leaves the geometry and the metadata stored
\* under every identifier as the first build stored them.
C11_BuiltOnceImmutable ==
    /\ tessRuns <= 1
    /\ JOIST_LIBRARY # <<>> =>
         \A c \in Coords(variant) :
            LET k == LookupKey(variant, HashOf(variant, c))
            IN MapHas(JOIST_LIBRARY, k) =>
                 /\ MapGet(JOIST_LIBRARY, k).geometry = GeometryRef(1)
                 /\ MapGet(JOIST_LIBRARY, k).metadata =
                        Metadata(variant, 1, LoopWrites[variant][k])

\* every identifier of lib holds the geometry object of the run that last wrote lib
AllShareGeometry(lib) ==
    \A k \in DOMAIN LoopWrites[variant] :
        MapGet(lib, k).geometry = GeometryRef(lib[Len(lib)])

\* C12: one initializeJoistLibrary call runs tessellateShapeOptimized exactly
\* once, before the first record is inserted (a call that fails there inserts
\* nothing), and every record it inserts refers to that one geometry object:
\* any two identifiers of the library hold the same geometry reference.
C12_OneGeometryPerBuild ==
    /\ lastInit.called =>
         IF lastInit.outcome.threw
         THEN /\ lastInit.tessAfter = lastInit.tessBefore
              /\ lastInit.libAfter = lastInit.libBefore
         ELSE /\ lastInit.tessAfter = lastInit.tessBefore + 1
              /\ lastInit.libAfter = Append(lastInit.libBefore, lastInit.tessAfter)
    /\ (JOIST_LIBRARY # <<>> /\ ~lastCall.called /\ ~lastStats.called) =>
         AllShareGeometry(JOIST_LIBRARY)
    /\ (/\ prevCall.called
        /\ lastCall.called
        /\ ~prevCall.outcome.threw
        /\ ~lastCall.outcome.threw
        /\ prevCall.libBefore = lastCall.libBefore) =>
         lastCall.outcome.value.geometry = prevCall.outcome.value.geometry

\* a build completed, and two lookups on it returned different variants
C12_Witness ==
    /\ lastInit.called
    /\ ~lastInit.outcome.threw
    /\ prevCall.called
    /\ lastCall.called
    /\ ~prevCall.outcome.threw
    /\ ~lastCall.outcome.threw
    /\ prevCall.libBefore = lastCall.libBefore
    /\ prevCall.outcome.value.variantId # lastCall.outcome.value.variantId

\* ---------------------------------------------------------------- counts, order, alignment
\* C13: the triangle count addShapeToScene computes is the sum of the faces'
\* triangle counts, joinPrimitives' index output has three entries per counted
\* triangle, and for a single-face shape the merged vertex count is the
\* face's node count and the triangle count is the face's triangle count.
C13_TriangleCount ==
    scene.called =>
        LET v == scene.value
            t == TriCounts(TriangulatedAt)
        IN /\ v.tot_triangle_count = SumSeq(t, Len(t))
           /\ Len(v.locTriIndices) = 3 * v.tot_triangle_count
           /\ (Len(shape) = 1 /\ ~shape[1].isNull) =>
                /\ Len(v.locVertexcoord) = 3 * shape[1].nodes
                /\ v.tot_triangle_count = Len(shape[1].tris)

\* a two-face shape with one and two triangles went through addShapeToScene
C13_Witness ==
    /\ scene.called
    /\ Len(shape) = 2
    /\ Len(shape[1].tris) = 1
    /\ Len(shape[2].tris) = 2
    /\ scene.value.tot_triangle_count = 3

\* idx is the concatenation, face after face, of the triangles of triLists in
\* their listed order, each index moved by the node counts before its face
OrderKept(idx, triLists, nodeCounts) ==
    LET t == [k \in 1..Len(triLists) |-> Len(triLists[k])]
    IN /\ Len(idx) = 3 * SumSeq(t, Len(t))
       /\ \A k \in 1..Len(triLists) : \A i \in 1..t[k] :
            TripleAt(idx, SumSeq(t, k - 1) + i) =
                Shifted(triLists[k][i], SumSeq(nodeCounts, k - 1) - 1)

\* the triangles a per-face buffer lists, in its order
ListedBy(face) ==
    [i \in 1..face.number_of_triangles |-> TripleAt(face.tri_indexes, i)]

\* C14: consolidation keeps the triangle order: the merged index sequence is
\* the concatenation, in face traversal order, of each face's triangles in the
\* order the face listed them, every index only rebased by its face's offset;
\* nothing is reordered, dropped or duplicated (joinPrimitives over the face
\* list, tessellateShapeOptimized over the faces it merges).
C14_TriangleOrderKept ==
    /\ joined.called =>
         OrderKept(joined.value[3],
                   [k \in 1..Len(facelist.value) |-> ListedBy(facelist.value[k])],
                   [k \in 1..Len(facelist.value) |->
                        Len(facelist.value[k].vertex_coord) \div 3])
    /\ optGeometry.called =>
         OrderKept(IndexOf(optGeometry.value),
                   [k \in 1..Len(MergedAt) |-> shape[MergedAt[k]].tris],
                   NodeCounts(MergedAt))

\* both routines merged a shape whose second face lists two triangles
C14_Witness ==
    /\ joined.called
    /\ optGeometry.called
    /\ Len(shape) = 2
    /\ Len(shape[1].tris) >= 1
    /\ Len(shape[2].tris) = 2
    /\ shape[2].tris[1] # shape[2].tris[2]

\* the normal component that belongs at the slot of a vertex component
NormalOf(p) == <<"n", p[2], p[3], p[4]>>

\* normals has the length of vertices and holds, slot by slot, the normal of
\* the node whose coordinate vertices holds there
Aligned(vertices, normals) ==
    /\ Len(normals) = Len(vertices)
    /\ \A j \in 1..Len(vertices) : normals[j] = NormalOf(vertices[j])

\* C15: each per-face buffer of openCascadeHelper.tessellate has
\* len(vertex_coord) = len(normal_coord) = 3 x node count and
\* len(tri_indexes) = 3 x number_of_triangles, normal i stored where vertex i
\* is; after joinPrimitives the merged normals have the length of the merged
\* vertices and stay aligned with them.
C15_BuffersAligned ==
    /\ facelist.called =>
         /\ Len(facelist.value) = Len(TriangulatedAt)
         /\ \A k \in 1..Len(TriangulatedAt) :
              LET f == shape[TriangulatedAt[k]]
                  b == facelist.value[k]
              IN /\ Len(b.vertex_coord) = 3 * f.nodes
                 /\ Len(b.normal_coord) = 3 * f.nodes
                 /\ Len(b.tri_indexes) = 3 * b.number_of_triangles
                 /\ Aligned(b.vertex_coord, b.normal_coord)
    /\ joined.called => Aligned(joined.value[1], joined.value[2])

\* two faces with at least four nodes between them were tessellated and joined
C15_Witness ==
    /\ facelist.called
    /\ joined.called
    /\ Len(facelist.value) = 2
    /\ Len(joined.value[2]) >= 12

\* C16: in visualize the index width follows the vertex count: a face with 65,536
\* or more vertices always gets the Uint32Array, and whenever the Uint16Array is
\* chosen every value written to it is below 65,536 and reads back unchanged.
WrittenIndex(f, j) ==
    VisWindTriple(f.tris[((j - 1) \div 3) + 1], f.orient)[((j - 1) % 3) + 1] - 1

\* the values visualize writes to the indices array of face f, in order
WrittenIndices(f) == [j \in 1..(Len(f.tris) * 3) |-> WrittenIndex(f, j)]

C16_IndexWidthByVertexCount ==
    visIndices.called =>
        LET f == shape[1]
            r == visIndices.value
        IN /\ (f.nodes >= 65536 => r.indexType = "Uint32Array")
           /\ (r.indexType = "Uint16Array" =>
                  /\ \A j \in 1..(Len(f.tris) * 3) : WrittenIndex(f, j) < 65536
                  /\ r.index = WrittenIndices(f))

\* the shape with its k-th face left out of the consolidation
Skip(s, k) == [s EXCEPT ![k] = NullFace]

\* what the function returns for shape s when the kernel raises no error
ResultOf(fn, s) ==
    IF fn = "tessellate" THEN tessellate(s)
    ELSE IF fn = "visualize" THEN visualize(s)
    ELSE tessellateShapeOptimized(s)

\* the face loops agree with the functions when the kernel raises no error
KernelRunsAgree ==
    (kernelRun.called /\ ~kernelRun.value.raised) =>
        /\ ~kernelRun.value.threw
        /\ kernelRun.value.value = ResultOf(kernelRun.value.fn, shape)

\* C17: when the kernel raises an error while one face is processed, tessellate,
\* visualize and tessellateShapeOptimized do not throw: the face is skipped and
\* the result holds the data of every other triangulated face.
C17_FaceErrorSkipped ==
    (kernelRun.called /\ kernelRun.value.raised) =>
        /\ ~kernelRun.value.threw
        /\ kernelRun.value.value =
               ResultOf(kernelRun.value.fn, Skip(shape, kernelRun.value.fault.face))

\* C18: in tessellate, visualize and tessellateShapeOptimized every kernel handle
\* acquired for a face is deleted before the loop advances, on every path: no
\* per-face handle is live at an iteration boundary.
C18_NoLiveHandleAtBoundary ==
    kernelRun.called =>
        \A i \in DOMAIN kernelRun.value.live : kernelRun.value.live[i] = {}

\* ---------------------------------------------------------------- the flattened layout
\* the three coordinates of merged vertex (or normal) number n of a flat array
MergedTriple(arr, n) == <<At(arr, (n * 3) + 0), At(arr, (n * 3) + 1), At(arr, (n * 3) + 2)>>

\* C19: for triangle count T generateGeometry returns 3T vertices and T faces;
\* face i references positions 3i, 3i+1, 3i+2; output vertex 3i+k is the merged
\* vertex numbered locTriIndices[3i+k] and the k-th normal of face i is the
\* merged normal of that same number.
C19_FlattenedLayout ==
    scene.called =>
        LET v == scene.value
            T == v.tot_triangle_count
        IN /\ Len(v.vertices) = 3 * T
           /\ Len(v.faces) = T
           /\ \A i \in 0..(T - 1) :
                /\ v.faces[i + 1].a = 3 * i
                /\ v.faces[i + 1].b = (3 * i) + 1
                /\ v.faces[i + 1].c = (3 * i) + 2
                /\ \A k \in 0..2 :
                     LET n == At(v.locTriIndices, (3 * i) + k)
                     IN /\ v.vertices[(3 * i) + k + 1] = MergedTriple(v.locVertexcoord, n)
                        /\ v.faces[i + 1].vertexNormals[k + 1]
                               = MergedTriple(v.locNormalcoord, n)

\* a two-face shape went through generateGeometry: three triangles, and a
\* corner that is not merged vertex 0
C19_Witness ==
    /\ scene.called
    /\ Len(shape) = 2
    /\ scene.value.tot_triangle_count = 3
    /\ Len(scene.value.vertices) = 9
    /\ \E j \in DOMAIN scene.value.locTriIndices : scene.value.locTriIndices[j] > 3

C20_WitnessCreateJoist ==
    /\ lastInit.called
    /\ lastInit.outcome.threw
    /\ lastInit.outcome.error = "CreateJoist"
    /\ lastInit.libBefore = <<>>
\* ---------------------------------------------------------------- library: negative coordinates
\* C22: for every integer coordinate triple, negative components included, the
\* structural hash that instantiateJoistFromLibrary computes is a bucket in
\* [0, N), so the identifier derived from it is one the build loop produced.
C22_HashIsBucket ==
    lastCall.called =>
        /\ HashOf(variant, lastCall.args) \in 0..(VariantCount(variant) - 1)
        /\ LookupKey(variant, HashOf(variant, lastCall.args)) \in DOMAIN LoopWrites[variant]
\* ---------------------------------------------------------------- library: metadata and identifier
\* the FT, D, PAT and REV fields of an identifier of the 1000- and 10000-variant modules
FieldFT(key) == key[2]
FieldD(key) == key[4]
FieldPAT(key) == key[6]
FieldREV(key) == key[8]

\* the metadata of a record agrees with the fields of the identifier key
MetadataMatches(key, metadata) ==
    /\ metadata.length = 12 * FieldFT(key)
    /\ metadata.depth = FieldD(key)
    /\ metadata.pattern = <<"WebPattern_", FieldPAT(key)>>
    /\ metadata.revision = FieldREV(key)

\* every record the build loop stores agrees with the identifier it is stored under
RecordsMatch ==
    [v \in {"V1000", "V10000"} |->
        \A k \in DOMAIN LoopWrites[v] : MetadataMatches(k, Metadata(v, 1, LoopWrites[v][k]))]

\* C28: in the 1000-variant and 10000-variant libraries the metadata of every
\* record agrees with the FT, D, PAT and REV fields of its identifier, so the
\* metadata instantiateJoistFromLibrary returns matches the variantId it returns.
C28_MetadataMatchesIdentifier ==
    variant \in {"V1000", "V10000"} =>
        /\ RecordsMatch[variant]
        /\ \A k \in {LookupKey(variant, HashOf(variant, c)) : c \in Coords(variant)} :
              MapHas(JOIST_LIBRARY, k) =>
                  MetadataMatches(k, MapGet(JOIST_LIBRARY, k).metadata)
        /\ (lastCall.called /\ ~lastCall.outcome.threw) =>
              MetadataMatches(lastCall.outcome.value.variantId,
                              lastCall.outcome.value.metadata)

\* a lookup away from the origin returned a record of the 10000-variant library
C28_Witness ==
    /\ variant = "V10000"
    /\ lastCall.called
    /\ ~lastCall.outcome.threw
    /\ lastCall.args = <<MaxCoord, MaxCoord, MaxCoord>>
    /\ FieldPAT(lastCall.outcome.value.variantId) > 0
YieldInterval(fn) ==
    CASE fn = "createJoistsInBatches" -> BATCH_SIZE
      [] fn = "createJoistsFromLibrary" -> 100
      [] fn = "createBigKahunaJoists" -> 200

\* C21: createJoistsInBatches cedes control after every batch of at most 25
\* joists, createJoistsFromLibrary after every 100 instantiations and
\* createBigKahunaJoists after every 200: no longer run of joists is made
\* between two consecutive yields.
C21_BoundedRunsBetweenYields ==
    creation.called =>
        /\ creation.longestRun <= YieldInterval(creation.fn)
        /\ creation.sinceYield <= YieldInterval(creation.fn)
        /\ creation.status = "suspended" =>
              /\ creation.sinceYield = 0
              /\ creation.joistCount = creation.yields * YieldInterval(creation.fn)
        /\ creation.status = "returned" =>
              creation.yields * YieldInterval(creation.fn) = creation.totalJoists

\* The Big Kahuna's loop waits at its third yield, 200 joists after the second
C21_Witness ==
    /\ creation.called
    /\ creation.fn = "createBigKahunaJoists"
    /\ creation.status = "suspended"
    /\ creation.yields = 3
    /\ creation.joistCount = 600
    /\ creation.longestRun = 200

\* ---------------------------------------------------------------- creation: the meshes made
LibraryLoop(fn) == fn \in {"createJoistsFromLibrary", "createBigKahunaJoists"}

\* the coordinate triple a mesh was made for
TripleOf(mesh) == <<mesh.userData.floor, mesh.userData.bay, mesh.userData.joist>>

\* every floor's array holds bays x joistsPerBay meshes, all of that floor
FiledByFloor(jbf, meshes, cfg) ==
    /\ Len(jbf) = cfg.numberOfFloors
    /\ \A f \in 1..Len(jbf) :
          /\ Len(jbf[f]) = cfg.numberOfBays * cfg.joistsPerBay
          /\ \A n \in 1..Len(jbf[f]) : meshes[jbf[f][n]].userData.floor = f - 1
    /\ UNION {{jbf[f][k] : k \in 1..Len(jbf[f])} : f \in 1..Len(jbf)} = 1..Len(meshes)

\* the mesh pushed last on each floor's array is a mesh of that floor
FiledSoFar(jbf, meshes) ==
    \A f \in 1..Len(jbf) :
        Len(jbf[f]) > 0 => meshes[jbf[f][Len(jbf[f])]].userData.floor = f - 1

CreationComplete ==
    LET cfg == BuildingConfig(creation.fn)
    IN /\ Len(creation.allMeshes) = cfg.numberOfFloors * cfg.numberOfBays * cfg.joistsPerBay
       /\ {TripleOf(creation.allMeshes[n]) : n \in 1..Len(creation.allMeshes)}
              = (0..(cfg.numberOfFloors - 1)) \X (0..(cfg.numberOfBays - 1))
                    \X (0..(cfg.joistsPerBay - 1))
       /\ FiledByFloor(joistsByFloor, creation.allMeshes, cfg)
       /\ Cardinality(creation.uniqueVariants) <= LibraryStats(JOIST_LIBRARY).totalVariants

\* C26: createJoistsFromLibrary and createBigKahunaJoists terminate, having made
\* floors x bays x joistsPerBay meshes, one per coordinate triple, each filed
\* under its own floor, and report no more unique variants than totalVariants.
C26_AllJoistsCreated ==
    /\ []((creation.called /\ LibraryLoop(creation.fn)) =>
            /\ creation.status # "threw"
            /\ FiledSoFar(joistsByFloor, creation.allMeshes)
            /\ Cardinality(creation.uniqueVariants) <= LibraryStats(JOIST_LIBRARY).totalVariants
            /\ creation.status = "returned" => CreationComplete)
    /\ ((creation.called /\ LibraryLoop(creation.fn))
            ~> (creation.called /\ creation.status = "returned"))

\* createJoistsFromLibrary returned its 5000 meshes on five floors
C26_Witness ==
    /\ creation.called
    /\ creation.fn = "createJoistsFromLibrary"
    /\ creation.status = "returned"
    /\ Len(creation.allMeshes) = 5000
    /\ Len(joistsByFloor[5]) = 1000
    /\ Cardinality(creation.uniqueVariants) > 1
\* ================================================================ the demos: the design-analysis run
\* simulateDesignRun and its processBatch on the pages that instantiate joists
\* from a library: variant "V1000" is the page of the 1000-variant library,
\* "V10000" The Big Kahuna. A mesh is known by the reference joistsByFloor
\* holds; meshMaterial[m] is mesh.material. A stress material is known by the
\* run that made it and its index in stressStates, which also names the
\* mesh's userData.stressState.
MaxRuns == 2

\* joists on the page when the button is clicked, as multiples of the batch size
\* and their neighbours
JoistTotals(v) ==
    LET b == IF v = "V10000" THEN 500 ELSE 200
    IN {0, 1, b, b + 1, 2 * b + 1}

\* batchSize of processBatch and the delay of the timer that resets the button
DesignConfig(v) ==
    IF v = "V10000" THEN [batchSize |-> 500, resetDelay |-> 3000]
                    ELSE [batchSize |-> 200, resetDelay |-> 2000]

\* the three entries of stressStates
StressStates == 0..2

\* the values Math.random can take, as the stress state the mesh at index i gets
Seeds == 0..2

StressStateIndex(seed, i) == (seed + i) % 3

BaseMaterial(mesh) == <<"baseMaterial", mesh>>

StressMaterial(run, stressStateIndex) == <<"stressMaterial", run, stressStateIndex>>

\* joistsByFloor.flat()
RECURSIVE Flat(_)
Flat(jbf) == IF jbf = <<>> THEN <<>> ELSE Head(jbf) \o Flat(Tail(jbf))

Min(a, b) == IF a <= b THEN a ELSE b

\* a batch that takes every remaining joist
EndIndex_WholeRest(processedCount, batchSize, totalJoists) == totalJoists

\* const endIndex = Math.min(processedCount + batchSize, totalJoists)
EndIndex(processedCount, batchSize, totalJoists) ==
    Min(processedCount + batchSize, totalJoists)

\* a store that overwrites the entry the mesh has
StoreOriginal_Overwrites(orig, mesh, material) ==
    [m \in DOMAIN orig \cup {mesh} |-> IF m = mesh THEN material ELSE orig[m]]

\* if (!originalMaterials.has(mesh)) originalMaterials.set(mesh, mesh.material)
StoreOriginal(orig, mesh, material) ==
    IF mesh \in DOMAIN orig THEN orig
    ELSE [m \in DOMAIN orig \cup {mesh} |-> IF m = mesh THEN material ELSE orig[m]]

\* a button that stays enabled
Disable_Not(btn) == btn

\* designRunBtn.disabled = true
Disable(btn) == [btn EXCEPT !.disabled = TRUE]

\* Math.round((processedCount / totalJoists) * 100): 0 / 0 is NaN
Progress(processedCount, totalJoists) ==
    IF totalJoists = 0 THEN "NaN"
    ELSE (200 * processedCount + totalJoists) \div (2 * totalJoists)

\* the locals of simulateDesignRun before the first processBatch; assigned lists
\* the indices i the loop has passed, largestBatch is the largest number of
\* meshes one call of processBatch has taken, timer the callback that is pending
StartDesignRun(seed, jbf) ==
    [seed |-> seed, allJoists |-> Flat(jbf), totalJoists |-> Len(Flat(jbf)),
     processedCount |-> 0, assigned |-> <<>>, batches |-> 0, largestBatch |-> 0,
     timer |-> "none", delay |-> 0]

\* one pass of the loop of processBatch, on st = <<meshMaterial, originalMaterials, assigned>>
OneMesh(st, n, run, i) ==
    LET mesh == run.allJoists[i + 1]
    IN <<[st[1] EXCEPT ![mesh] = StressMaterial(n, StressStateIndex(run.seed, i))],
         StoreOriginal(st[2], mesh, st[1][mesh]),
         Append(st[3], i)>>

\* for (let i = lo; i < hi; i++)
RECURSIVE ProcessRange(_, _, _, _, _)
ProcessRange(st, n, run, lo, hi) ==
    CHOOSE r \in {IF l >= h THEN s
                  ELSE IF h = l + 1 THEN OneMesh(s, n, run, l)
                  ELSE ProcessRange(ProcessRange(s, n, run, l, (l + h) \div 2),
                                    n, run, (l + h) \div 2, h) :
                  s \in {st}, l \in {lo}, h \in {hi}} : TRUE

\* processBatch of run n: <<the run, meshMaterial, originalMaterials, textContent>> after it
ProcessBatch(n, run, mats, orig, cfg) ==
    LET endIndex == EndIndex(run.processedCount, cfg.batchSize, run.totalJoists)
        Done(st) ==
            <<[run EXCEPT !.processedCount = endIndex,
                          !.assigned = st[3],
                          !.batches = @ + 1,
                          !.largestBatch = Max(@, endIndex - run.processedCount),
                          !.timer = IF endIndex < run.totalJoists THEN "processBatch"
                                    ELSE "reset",
                          !.delay = IF endIndex < run.totalJoists THEN 0
                                    ELSE cfg.resetDelay],
              st[1], st[2],
              IF endIndex < run.totalJoists
              THEN <<"Analyzing", Progress(endIndex, run.totalJoists)>>
              ELSE <<"Analysis Complete">>>>
    IN CHOOSE r \in {Done(st) : st \in {ProcessRange(<<mats, orig, run.assigned>>, n, run,
                                                     run.processedCount, endIndex)}} : TRUE

\* the click listener: simulateDesignRun up to the end of its first processBatch.
\* The host delivers no click to a disabled button.
Click ==
    /\ ~designRunBtn.disabled
    /\ Len(designRuns) < MaxRuns
    /\ \E seed \in Seeds :
          \E run \in {StartDesignRun(seed, joistsByFloor)} :
          \E r \in {ProcessBatch(Len(designRuns) + 1, run, meshMaterial, originalMaterials,
                                 DesignConfig(variant))} :
              /\ designRuns' = Append(designRuns, r[1])
              /\ meshMaterial' = r[2]
              /\ originalMaterials' = r[3]
              /\ designRunBtn' = [Disable(designRunBtn) EXCEPT !.textContent = r[4]]
    /\ UNCHANGED <<meshVars, libVars, visIndices, kernelRun, createVars, sceneVars>>

\* setTimeout(processBatch, 0) of run n fires
BatchTimer(n) ==
    /\ designRuns[n].timer = "processBatch"
    /\ \E r \in {ProcessBatch(n, designRuns[n], meshMaterial, originalMaterials,
                              DesignConfig(variant))} :
          /\ designRuns' = [designRuns EXCEPT ![n] = r[1]]
          /\ meshMaterial' = r[2]
          /\ originalMaterials' = r[3]
          /\ designRunBtn' = [designRunBtn EXCEPT !.textContent = r[4]]
    /\ UNCHANGED <<meshVars, libVars, visIndices, kernelRun, createVars, sceneVars>>

\* the timer that resets the button fires
ResetTimer(n) ==
    /\ designRuns[n].timer = "reset"
    /\ designRuns' = [designRuns EXCEPT ![n].timer = "none"]
    /\ designRunBtn' = [disabled |-> FALSE, textContent |-> "Simulate Joist Design Run"]
    /\ UNCHANGED <<meshMaterial, originalMaterials>>
    /\ UNCHANGED <<meshVars, libVars, visIndices, kernelRun, createVars, sceneVars>>

\* the floors of a page with total joists: two floors, the meshes in the order
\* of their creation
FloorsOf(total) ==
    <<[k \in 1..(total \div 2) |-> k],
      [k \in 1..(total - (total \div 2)) |-> (total \div 2) + k]>>

\* a page whose joists exist and whose controls are set up: every mesh has its
\* own clone of the base material
InitDesign ==
    /\ shape = TemplateShape
    /\ facelist = NotCalled
    /\ joined = NotCalled
    /\ visGeoms = NotCalled
    /\ optGeometry = NotCalled
    /\ shapeMesh = NotCalled
    /\ scene = NotCalled
    /\ visIndices = NotCalled
    /\ kernelRun = NotCalled
    /\ creation = NotCalled
    /\ variant \in {"V1000", "V10000"}
    /\ \E total \in JoistTotals(variant) :
          /\ joistsByFloor = FloorsOf(total)
          /\ meshMaterial = [m \in 1..total |-> BaseMaterial(m)]
    /\ designRunBtn = ButtonAtLoad
    /\ originalMaterials = <<>>
    /\ designRuns = <<>>
    /\ children = SceneAtLoad
    /\ sceneCalls = NoCalls
    /\ JOIST_LIBRARY = <<1>>
    /\ pending = 0
    /\ initCalls = 1
    /\ tessRuns = 1
    /\ lastCall = NotCalled
    /\ prevCall = NotCalled
    /\ lastStats = NotCalled
    /\ lastInit = NotCalled

NextDesign ==
    \/ Click
    \/ \E n \in DOMAIN designRuns : BatchTimer(n)
    \/ \E n \in DOMAIN designRuns : ResetTimer(n)

SpecDesign == InitDesign /\ [][NextDesign]_vars

\* the host runs a timer that is due
SpecDesignFair ==
    /\ SpecDesign
    /\ WF_vars(\E n \in DOMAIN designRuns : BatchTimer(n))
    /\ WF_vars(\E n \in DOMAIN designRuns : ResetTimer(n))
\* ---------------------------------------------------------------- design run: properties
\* run n has passed its last batch and its reset timer has fired
RunOver(n) ==
    /\ designRuns[n].processedCount = designRuns[n].totalJoists
    /\ designRuns[n].timer = "none"

\* what run n has done so far: the indices 0 .. processedCount - 1 once each and
\* in order, in calls of processBatch of at most batchSize meshes each, every
\* call but the first started by the timer
RunInOrder(n) ==
    LET run == designRuns[n]
        batchSize == DesignConfig(variant).batchSize
    IN /\ run.assigned = [j \in 1..run.processedCount |-> j - 1]
       /\ run.largestBatch <= batchSize
       /\ run.processedCount = Min(run.batches * batchSize, run.totalJoists)
       /\ run.processedCount >= 0
       /\ run.processedCount <= run.totalJoists
       /\ run.totalJoists = Len(Flat(joistsByFloor))

\* the meshes the latest run has passed carry that run's stress materials
StressAssigned ==
    designRuns # <<>> =>
        LET n == Len(designRuns)
            run == designRuns[n]
        IN [j \in 1..run.processedCount |-> meshMaterial[run.allJoists[j]]]
             = [j \in 1..run.processedCount |->
                    StressMaterial(n, StressStateIndex(run.seed, j - 1))]

\* C23: a design-analysis run assigns a stress state to every joist mesh once,
\* in index order, in batches of at most 200 meshes (500 in The Big Kahuna), one
\* batch per timer callback; processedCount never decreases and never exceeds
\* the total; when the host runs the timers the run reaches processedCount =
\* total and then the button is enabled again, also with zero joists.
C23_DesignRunCompletes ==
    /\ [](/\ \A n \in DOMAIN designRuns : RunInOrder(n)
          /\ StressAssigned
          /\ ~designRunBtn.disabled => \A n \in DOMAIN designRuns : RunOver(n))
    /\ [][\A n \in DOMAIN designRuns :
             designRuns'[n].processedCount >= designRuns[n].processedCount]_vars
    /\ \A k \in 1..MaxRuns :
          (Len(designRuns) >= k) ~> (Len(designRuns) >= k /\ RunOver(k))
    /\ (designRunBtn.disabled ~> ~designRunBtn.disabled)

\* The Big Kahuna's run over 1001 joists is over after three batches
C23_Witness ==
    /\ variant = "V10000"
    /\ Len(designRuns) = 1
    /\ designRuns[1].totalJoists = 1001
    /\ designRuns[1].batches = 3
    /\ RunOver(1)
    /\ ~designRunBtn.disabled

\* C24: at most one design-analysis run is in flight: the button is disabled
\* from the start of simulateDesignRun until the run's last batch is done and
\* its reset timer has fired, so a run starts only when every earlier run is over.
C24_OneRunInFlight ==
    /\ Cardinality({n \in DOMAIN designRuns : designRuns[n].timer # "none"}) <= 1
    /\ \A n \in DOMAIN designRuns :
          /\ ~RunOver(n) => designRunBtn.disabled
          /\ n < Len(designRuns) => RunOver(n)

\* a second run is between two batches, after the first run is over
C24_Witness ==
    /\ Len(designRuns) = 2
    /\ RunOver(1)
    /\ designRuns[2].timer = "processBatch"
    /\ designRuns[2].processedCount > 0
    /\ designRunBtn.disabled

\* the meshes some run has passed
Processed ==
    UNION {{designRuns[n].allJoists[j] : j \in 1..designRuns[n].processedCount} :
              n \in DOMAIN designRuns}

\* C25: originalMaterials maps each processed mesh to the material it had before
\* its first run; no later run's stress material replaces an entry.
C25_OriginalMaterialsKept ==
    originalMaterials = [m \in Processed |-> BaseMaterial(m)]

\* a mesh carries the second run's stress material and its entry is still the
\* base material
C25_Witness ==
    /\ Len(designRuns) = 2
    /\ designRuns[2].processedCount >= 1
    /\ 1 \in DOMAIN originalMaterials
    /\ originalMaterials[1] = BaseMaterial(1)
    /\ meshMaterial[1] \in {StressMaterial(2, x) : x \in StressStates}
\* ================================================================ addShapeToScene: calls that interleave
\* Each await of addShapeToScene suspends the call, and other calls on the same
\* scene may run before it goes on. A call's mesh is known by the call's number.
MaxCalls == 2

\* the shapes the calls are given: every shape of at most one face
CallShapes == {s \in Shapes : Len(s) <= 1}

\* setOpenCascade and tessellate(shape), up to the first await
CallAddShapeToScene(s) ==
    /\ Len(sceneCalls.calls) < MaxCalls
    /\ sceneCalls' = [sceneCalls EXCEPT
           !.calls = Append(@, [shape |-> s, at |-> "tessellate",
                                facelist |-> tessellate(s)])]
    /\ UNCHANGED <<meshVars, libVars, visIndices, kernelRun, createVars, designVars, children>>

\* joinPrimitives(facelist), up to the second await
ResumeAfterTessellate(c) ==
    /\ sceneCalls.calls[c].at = "tessellate"
    /\ sceneCalls' = [sceneCalls EXCEPT
           !.calls[c] = [shape |-> @.shape, at |-> "joinPrimitives",
                         facelist |-> @.facelist,
                         joined |-> joinPrimitives(@.facelist)]]
    /\ UNCHANGED <<meshVars, libVars, visIndices, kernelRun, createVars, designVars, children>>

\* the triangle count and generateGeometry, up to the third await
ResumeAfterJoinPrimitives(c) ==
    /\ sceneCalls.calls[c].at = "joinPrimitives"
    /\ \E call \in {sceneCalls.calls[c]} :
       \E tot_triangle_count \in {TotTriangleCount(call.facelist, Len(call.facelist))} :
          sceneCalls' = [sceneCalls EXCEPT
              !.calls[c] = [shape |-> call.shape, at |-> "generateGeometry",
                            facelist |-> call.facelist, joined |-> call.joined,
                            tot_triangle_count |-> tot_triangle_count,
                            geometry |-> generateGeometry(tot_triangle_count, call.joined[1],
                                                          call.joined[2], call.joined[3])]]
    /\ UNCHANGED <<meshVars, libVars, visIndices, kernelRun, createVars, designVars, children>>

\* the rest of the function: the mesh, the lookup of the existing shape, its
\* removal and the insertion, with no await between them
ResumeAfterGenerateGeometry(c) ==
    /\ sceneCalls.calls[c].at = "generateGeometry"
    /\ \E call \in {sceneCalls.calls[c]} :
          /\ scene' = Returned([name |-> "shape", vertices |-> call.geometry[1],
                                faces |-> call.geometry[2], facelist |-> call.facelist,
                                locVertexcoord |-> call.joined[1],
                                locNormalcoord |-> call.joined[2],
                                locTriIndices |-> call.joined[3],
                                tot_triangle_count |-> call.tot_triangle_count])
          /\ children' = ReplaceShape(children, [name |-> "shape", object |-> c])
          /\ sceneCalls' = [sceneCalls EXCEPT !.calls[c].at = "returned",
                                              !.finished = Append(@, c)]
    /\ UNCHANGED <<shape, facelist, joined, visGeoms, optGeometry, shapeMesh>>
    /\ UNCHANGED <<libVars, visIndices, kernelRun, createVars, designVars>>

InitCalls ==
    /\ shape = <<>>
    /\ facelist = NotCalled
    /\ joined = NotCalled
    /\ visGeoms = NotCalled
    /\ optGeometry = NotCalled
    /\ shapeMesh = NotCalled
    /\ scene = NotCalled
    /\ visIndices = NotCalled
    /\ kernelRun = NotCalled
    /\ creation = NotCalled
    /\ joistsByFloor = <<>>
    /\ designRunBtn = ButtonAtLoad
    /\ meshMaterial = <<>>
    /\ originalMaterials = <<>>
    /\ designRuns = <<>>
    /\ children = SceneAtLoad
    /\ sceneCalls = NoCalls
    /\ variant = "none"
    /\ JOIST_LIBRARY = <<>>
    /\ pending = 0
    /\ initCalls = 0
    /\ tessRuns = 0
    /\ lastCall = NotCalled
    /\ prevCall = NotCalled
    /\ lastStats = NotCalled
    /\ lastInit = NotCalled

NextCalls ==
    \/ \E s \in CallShapes : CallAddShapeToScene(s)
    \/ \E c \in DOMAIN sceneCalls.calls : ResumeAfterTessellate(c)
    \/ \E c \in DOMAIN sceneCalls.calls : ResumeAfterJoinPrimitives(c)
    \/ \E c \in DOMAIN sceneCalls.calls : ResumeAfterGenerateGeometry(c)

SpecCalls == InitCalls /\ [][NextCalls]_vars

\* ---------------------------------------------------------------- addShapeToScene: properties
\* the positions in scene.children of the objects named "shape"
NamedShape == {k \in DOMAIN children : children[k].name = "shape"}

\* C27: after any interleaving of addShapeToScene calls on one scene, the scene
\* holds at most one object named "shape", the mesh of the call that returned
\* last; before any call has returned it holds none.
C27_OneShapeOfLastCall ==
    /\ Cardinality(NamedShape) <= 1
    /\ sceneCalls.finished = <<>> => NamedShape = {}
    /\ sceneCalls.finished # <<>> =>
          LET c == sceneCalls.finished[Len(sceneCalls.finished)]
          IN /\ \E k \in NamedShape : children[k].object = c
             /\ scene.called
             /\ scene.value.facelist = sceneCalls.calls[c].facelist
             /\ scene.value.vertices = sceneCalls.calls[c].geometry[1]

\* the call that started first returned last, and its mesh is the shape
C27_Witness ==
    /\ sceneCalls.finished = <<2, 1>>
    /\ sceneCalls.calls[1].shape # sceneCalls.calls[2].shape
    /\ \E k \in NamedShape : children[k].object = 1
    /\ Len(children) = Len(SceneAtLoad) + 1

====
